---- MODULE Spec2Model ----
(***************************************************************************)
(* A model of babel's message-catalog codecs (messages/mofile.py,          *)
(* messages/pofile.py), of its number pattern engine (numbers.py) and of   *)
(* its JavaScript lexer (messages/jslexer.py).                             *)
(*                                                                         *)
(* Representation.                                                         *)
(*   str    a sequence of Unicode code points (naturals)                   *)
(*   bytes  a sequence of naturals in 0..255                               *)
(*   a Python value that is "str or tuple of str" is a record              *)
(*          [tuple |-> BOOLEAN, v |-> sequence of str]; a plain str s is   *)
(*          [tuple |-> FALSE, v |-> <<s>>]                                 *)
(*   a 32-bit unsigned integer is a record [hi |-> 0..65535,               *)
(*          lo |-> 0..65535] (TLC's integers are 32-bit signed, and the MO *)
(*          magic numbers do not fit); its value is hi * 65536 + lo        *)
(*   the outcome of a call is a record whose field kind is "ok" or the     *)
(*          name of the exception the call raises                          *)
(***************************************************************************)
EXTENDS Integers, Sequences, FiniteSets, TLC

VARIABLES
    \* the MO scenarios
    mo_pc,        \* "build", "written", "failed", "loaded", "cut", "read"
    catalog,      \* the catalog being built
    use_fuzzy,    \* write_mo's use_fuzzy argument
    native,       \* the byte order of the machine: "<" or ">"
    mo_written,   \* the outcome of write_mo
    mo_buf,       \* the bytes of the MO file
    mo_src,       \* where mo_buf comes from: "none", "write_mo", "file"
    mo_read,      \* the outcome of read_mo
    mo_file,      \* what the MO file from elsewhere holds, and in which byte order
    \* the PO scenarios
    po_pc,        \* "build", "written", "failed", "loaded", "read"
    po_catalog,   \* the catalog being built
    po_opts,      \* write_po's keyword arguments
    po_written,   \* the outcome of write_po
    po_blocks,    \* the blocks a PO file from elsewhere is made of
    po_file,      \* the bytes of the PO file
    po_abort,     \* read_po's abort_invalid argument
    po_read,      \* the outcome of read_po
    \* the normalize / denormalize scenarios
    n_pc,         \* "start", "normalized", "denormalized", "escaped", "unescaped"
    n_string,     \* the string
    n_width,      \* the width argument
    n_normalized, \* normalize(n_string, width=n_width)
    n_result,     \* denormalize(n_normalized)
    e_string,     \* the string given to escape
    e_escaped,    \* escape(e_string)
    e_result,     \* unescape(e_escaped)
    \* the number scenarios
    num_pc,       \* "start", "patterns", "formatted", "parsed"
    patterns,     \* the NumberPattern objects made so far
    num_born,     \* for each of them, the number of apply calls made before it
    num_applies,  \* the number of apply calls made
    num_out,      \* the outcome of the last parse_pattern or apply call
    num_value,    \* the Decimal given to format_decimal
    num_locale,   \* the locale of format_decimal and parse_decimal
    num_kw,       \* format_decimal's keyword arguments
    num_formatted,\* the outcome of format_decimal
    num_input,    \* the string given to parse_decimal
    num_parsed,   \* the outcome of parse_decimal
    num_call,     \* the last call made: its name and its arguments
    \* the tokenize scenarios
    js_pc,        \* "start", "loop", "done", "SyntaxError"
    js_source,    \* source, as tokenize prepared it
    js_rules,     \* rules
    js_pos,       \* pos
    js_lineno,    \* lineno
    js_last,      \* last_token
    js_tokens,    \* the tokens yielded so far
    js_iter       \* the number of iterations of the while loop completed

mo_vars == <<mo_pc, catalog, use_fuzzy, native, mo_written, mo_buf, mo_src, mo_read, mo_file>>

po_vars == <<po_pc, po_catalog, po_opts, po_written, po_blocks, po_file, po_abort, po_read>>

norm_vars == <<n_pc, n_string, n_width, n_normalized, n_result, e_string, e_escaped, e_result>>

num_vars == <<num_pc, patterns, num_born, num_applies, num_out, num_value, num_locale, num_kw,
             num_formatted, num_input, num_parsed, num_call>>

js_vars == <<js_pc, js_source, js_rules, js_pos, js_lineno, js_last, js_tokens, js_iter>>

vars == <<mo_vars, po_vars, norm_vars, num_vars, js_vars>>

-----------------------------------------------------------------------------
(* Bounds of the model *)

\* messages a catalog under construction may hold
MaxMsgs == 2

\* index entries of an MO file handed to read_mo
MaxEntries == 1

\* the largest format version such a file declares
MaxVersion == 2

\* obsolete messages a catalog may hold
MaxObsolete == 1

\* blocks of a PO file handed to read_po
MaxBlocks == 2

\* length of the strings handed to normalize
MaxStrLen == 3

\* a width small enough to force wrapping
PoNarrow == 3

\* length of the sources handed to tokenize
MaxJsLen == 3

\* NumberPattern objects made in a scenario
MaxPatterns == 2

\* apply calls made in a scenario
MaxApplies == 1

-----------------------------------------------------------------------------
(* Generic helpers *)

Min(a, b) == IF a < b THEN a ELSE b

Max(a, b) == IF a > b THEN a ELSE b

RECURSIVE Concat(_)
\* ''.join(seqs) / b''.join(seqs)
Concat(seqs) == IF seqs = <<>> THEN <<>> ELSE Head(seqs) \o Concat(Tail(seqs))

RECURSIVE Join(_, _)
\* sep.join(seqs)
Join(sep, seqs) ==
    IF seqs = <<>> THEN <<>>
    ELSE IF Len(seqs) = 1 THEN seqs[1]
    ELSE seqs[1] \o sep \o Join(sep, Tail(seqs))

\* Python's seq[a:b] for 0 <= a, 0 <= b (0-based, end exclusive, clamped)
Slice(s, a, b) == SubSeq(s, Min(a, Len(s)) + 1, Min(b, Len(s)))

Contains(s, x) == \E i \in 1..Len(s) : s[i] = x

RECURSIVE SplitOn(_, _)
\* bytes.split(sep) / str.split(sep) for a one-element separator
SplitOn(s, x) ==
    IF ~Contains(s, x) THEN <<s>>
    ELSE LET i == CHOOSE k \in 1..Len(s) : s[k] = x /\ \A j \in 1..(k-1) : s[j] # x
         IN  <<SubSeq(s, 1, i - 1)>> \o SplitOn(SubSeq(s, i + 1, Len(s)), x)

RECURSIVE StrLess(_, _)
\* s < t for Python str (code point order)
StrLess(s, t) ==
    IF t = <<>> THEN FALSE
    ELSE IF s = <<>> THEN TRUE
    ELSE IF s[1] # t[1] THEN s[1] < t[1]
    ELSE StrLess(Tail(s), Tail(t))

-----------------------------------------------------------------------------
(* 32-bit unsigned integers, struct.pack / struct.unpack *)

U32(n) == [hi |-> n \div 65536, lo |-> n % 65536]

\* u + v without wrapping (Python integers are unbounded; hi may exceed 65535)
AddU(u, v) == [hi |-> u.hi + v.hi + ((u.lo + v.lo) \div 65536),
               lo |-> (u.lo + v.lo) % 65536]

\* u > n for a natural n < 65536
GtU(u, n) == u.hi > 0 \/ u.lo > n

\* min(u, n) for a natural n < 65536
ClampU(u, n) == IF u.hi > 0 THEN n ELSE Min(u.lo, n)

\* buf[u:v] for 32-bit u, v
SliceU(buf, u, v) == Slice(buf, ClampU(u, Len(buf)), ClampU(v, Len(buf)))

\* struct.unpack('<I', b) whatever the byte order asked for
UnpackLittle(order, b) == [hi |-> b[3] + 256 * b[4], lo |-> b[1] + 256 * b[2]]

\* struct.unpack('<I', b) and struct.unpack('>I', b), b of 4 bytes
UnpackI(order, b) ==
    IF order = "<" THEN [hi |-> b[3] + 256 * b[4], lo |-> b[1] + 256 * b[2]]
    ELSE [hi |-> 256 * b[1] + b[2], lo |-> 256 * b[3] + b[4]]

\* struct.pack(order + 'I', u)
PackI(order, u) ==
    IF order = "<" THEN <<u.lo % 256, u.lo \div 256, u.hi % 256, u.hi \div 256>>
    ELSE <<u.hi \div 256, u.hi % 256, u.lo \div 256, u.lo % 256>>

RECURSIVE PackAll(_, _)
\* the concatenation of PackI over a sequence of 32-bit values
PackAll(order, us) ==
    IF us = <<>> THEN <<>> ELSE PackI(order, Head(us)) \o PackAll(order, Tail(us))

\* 0x950412de
LE_MAGIC == [hi |-> 38148, lo |-> 4830]

\* 0xde120495
BE_MAGIC == [hi |-> 56850, lo |-> 1173]

-----------------------------------------------------------------------------
(* UTF-8: str.encode('utf-8') and bytes.decode() *)

\* the UTF-8 bytes of one code point (surrogates are not encodable)
EncodeCp(c) ==
    IF c < 128 THEN <<c>>
    ELSE IF c < 2048 THEN <<192 + (c \div 64), 128 + (c % 64)>>
    ELSE IF c < 65536 THEN <<224 + (c \div 4096), 128 + ((c \div 64) % 64), 128 + (c % 64)>>
    ELSE <<240 + (c \div 262144), 128 + ((c \div 4096) % 64),
           128 + ((c \div 64) % 64), 128 + (c % 64)>>

RECURSIVE Utf8Encode(_)
Utf8Encode(s) == IF s = <<>> THEN <<>> ELSE EncodeCp(Head(s)) \o Utf8Encode(Tail(s))

IsCont(b) == b >= 128 /\ b <= 191

\* the length of the well-formed UTF-8 sequence b starts with, 0 if there is none
Utf8Width(b) ==
    IF b = <<>> THEN 0
    ELSE IF b[1] < 128 THEN 1
    ELSE IF b[1] >= 194 /\ b[1] <= 223
         THEN IF Len(b) >= 2 /\ IsCont(b[2]) THEN 2 ELSE 0
    ELSE IF b[1] >= 224 /\ b[1] <= 239
         THEN IF /\ Len(b) >= 3 /\ IsCont(b[2]) /\ IsCont(b[3])
                 /\ (b[1] = 224 => b[2] >= 160)
                 /\ (b[1] = 237 => b[2] <= 159)
              THEN 3 ELSE 0
    ELSE IF b[1] >= 240 /\ b[1] <= 244
         THEN IF /\ Len(b) >= 4 /\ IsCont(b[2]) /\ IsCont(b[3]) /\ IsCont(b[4])
                 /\ (b[1] = 240 => b[2] >= 144)
                 /\ (b[1] = 244 => b[2] <= 143)
              THEN 4 ELSE 0
    ELSE 0

\* the code point of a well-formed sequence of width w at the head of b
DecodeCp(b, w) ==
    IF w = 1 THEN b[1]
    ELSE IF w = 2 THEN (b[1] - 192) * 64 + (b[2] - 128)
    ELSE IF w = 3 THEN (b[1] - 224) * 4096 + (b[2] - 128) * 64 + (b[3] - 128)
    ELSE (b[1] - 240) * 262144 + (b[2] - 128) * 4096 + (b[3] - 128) * 64 + (b[4] - 128)

RECURSIVE Utf8Valid(_)
Utf8Valid(b) ==
    IF b = <<>> THEN TRUE
    ELSE LET w == Utf8Width(b) IN w > 0 /\ Utf8Valid(SubSeq(b, w + 1, Len(b)))

RECURSIVE Utf8Decode(_)
\* bytes.decode() of well-formed input
Utf8Decode(b) ==
    IF b = <<>> THEN <<>>
    ELSE LET w == Utf8Width(b)
         IN  <<DecodeCp(b, w)>> \o Utf8Decode(SubSeq(b, w + 1, Len(b)))

-----------------------------------------------------------------------------
(* str methods used by the PO codec *)

StartsWith(s, p) == Len(s) >= Len(p) /\ SubSeq(s, 1, Len(p)) = p

RECURSIVE Replace(_, _, _)
\* s.replace(old, new) for a non-empty old: left to right, non-overlapping
Replace(s, old, new) ==
    IF s = <<>> THEN <<>>
    ELSE IF StartsWith(s, old) THEN new \o Replace(SubSeq(s, Len(old) + 1, Len(s)), old, new)
    ELSE <<Head(s)>> \o Replace(Tail(s), old, new)

\* s[1:-1]
Strip1(s) == SubSeq(s, 2, Len(s) - 1)

\* the line boundaries of str.splitlines: \n \v \f \r FS GS RS NEL LS PS
IsLineBreak(c) == c \in {10, 11, 12, 13, 28, 29, 30, 133, 8232, 8233}

\* the length of the first line of a non-empty s, its line break included
\* (\r\n is one break)
FirstLineLen(s) ==
    IF \A i \in 1..Len(s) : ~IsLineBreak(s[i]) THEN Len(s)
    ELSE LET i == CHOOSE k \in 1..Len(s) :
                    IsLineBreak(s[k]) /\ \A j \in 1..(k - 1) : ~IsLineBreak(s[j])
         IN  IF s[i] = 13 /\ i < Len(s) /\ s[i + 1] = 10 THEN i + 1 ELSE i

RECURSIVE SplitLinesKeep(_)
\* s.splitlines(True)
SplitLinesKeep(s) ==
    IF s = <<>> THEN <<>>
    ELSE LET n == FirstLineLen(s)
         IN  <<SubSeq(s, 1, n)>> \o SplitLinesKeep(SubSeq(s, n + 1, Len(s)))

\* str.isspace() of one character
IsSpace(c) ==
    \/ c \in {9, 10, 11, 12, 13, 28, 29, 30, 31, 32, 133, 160, 5760, 8232, 8233, 8239,
              8287, 12288}
    \/ (c >= 8192 /\ c <= 8202)

RECURSIVE SplitWords(_)
\* s.split(): the maximal runs of non-whitespace characters
SplitWords(s) ==
    IF s = <<>> THEN <<>>
    ELSE IF IsSpace(s[1]) THEN SplitWords(Tail(s))
    ELSE LET n == IF \A i \in 1..Len(s) : ~IsSpace(s[i]) THEN Len(s)
                  ELSE (CHOOSE k \in 1..Len(s) :
                            IsSpace(s[k]) /\ \A j \in 1..(k - 1) : ~IsSpace(s[j])) - 1
         IN  <<SubSeq(s, 1, n)>> \o SplitWords(SubSeq(s, n + 1, Len(s)))

-----------------------------------------------------------------------------
(* escape, unescape, normalize, denormalize (pofile.py) *)

\* escape(string): '"%s"' around the chain of replacements of pofile.py line 227
escape(string) ==
    <<34>> \o Replace(Replace(Replace(Replace(Replace(string,
                <<92>>, <<92, 92>>),      \* \   ->  \\
                <<9>>, <<92, 116>>),      \* TAB ->  \t
                <<13>>, <<92, 114>>),     \* CR  ->  \r
                <<10>>, <<92, 110>>),     \* LF  ->  \n
                <<34>>, <<92, 34>>)       \* "   ->  \"
          \o <<34>>

\* unescape(string): pofile.py line 34
unescape(string) ==
    Replace(Replace(Strip1(string), <<92, 92>>, <<92>>), <<92, 34>>, <<34>>)

\* denormalize(string): pofile.py lines 57-59
denormalize(string) ==
    LET body == IF StartsWith(string, <<34, 34>>)
                THEN SubSeq(string, 4, Len(string) - 1)    \* string[3:-1]
                ELSE string
    IN  unescape(Replace(body, <<34, 10, 34>>, <<>>))

\* a width argument: None, or an int
NoWidth == [none |-> TRUE, v |-> 0]

Width(n) == [none |-> FALSE, v |-> n]

RECURSIVE WrapChunks(_, _, _, _)
\* the loop of pofile.py lines 258-264 over the remaining chunks: the lines it
\* appends, given the chunks collected so far
WrapChunks(rest, chunks, prefix, width) ==
    IF rest = <<>>
    THEN IF chunks # <<>> THEN <<prefix \o Join(<<32>>, chunks)>> ELSE <<>>
    ELSE IF chunks # <<>> /\ Len(prefix \o Join(<<32>>, Append(chunks, Head(rest)))) > width
         THEN <<prefix \o Join(<<32>>, chunks)>>
                 \o WrapChunks(Tail(rest), <<Head(rest)>>, prefix, width)
         ELSE WrapChunks(Tail(rest), Append(chunks, Head(rest)), prefix, width)

\* the lines one line of the input contributes (pofile.py lines 256-266)
WrapLine(line, prefix, width) ==
    IF Len(prefix \o line) > width THEN WrapChunks(SplitWords(line), <<>>, prefix, width)
    ELSE <<prefix \o line>>

\* normalize(string, prefix, width) for a str
normalize(string, prefix, width) ==
    LET lines == SplitLinesKeep(string)
        wrapped == IF ~width.none /\ width.v # 0 /\ width.v > 0
                   THEN Concat(Concat([i \in 1..Len(lines) |->
                                          WrapLine(lines[i], prefix, width.v)]))
                   ELSE string
        out == SplitLinesKeep(wrapped)
    IN  <<34, 34>> \o Concat([i \in 1..Len(out) |->
                                <<10, 34>> \o Strip1(escape(out[i])) \o <<34>>])

-----------------------------------------------------------------------------
(* Message and Catalog (babel.messages.catalog) *)

\* a Python str value / a tuple (or list) of str
PyStr(s) == [tuple |-> FALSE, v |-> <<s>>]

PyTuple(ss) == [tuple |-> TRUE, v |-> ss]

\* bool(x) for a str or a tuple
Truthy(x) == IF x.tuple THEN Len(x.v) > 0 ELSE Len(x.v[1]) > 0

\* an optional str: None, or a str
None == [none |-> TRUE, v |-> <<>>]

Some(s) == [none |-> FALSE, v |-> s]

\* a line number: None, or an int
NoLine == [none |-> TRUE, v |-> 0]

Line(n) == [none |-> FALSE, v |-> n]

\* Message(id, string, locations, flags, auto_comments, user_comments,
\* previous_id, context=context): id, string and previous_id are a str or a
\* tuple of str, locations a sequence of <<filename, lineno>>, flags a set of
\* str, the comments sequences of str
PoMessage(id, string, locations, flags, auto_comments, user_comments, previous_id, context) ==
    [id |-> id, string |-> string, locations |-> locations, flags |-> flags,
     auto_comments |-> auto_comments, user_comments |-> user_comments,
     previous_id |-> previous_id, context |-> context]

\* Message(id, string, flags=flags, context=context)
Message(id, string, flags, context) ==
    PoMessage(id, string, <<>>, flags, <<>>, <<>>, PyTuple(<<>>), context)

\* 'fuzzy'
L_fuzzy == <<102, 117, 122, 122, 121>>

\* Message.fuzzy
Fuzzy(m) == L_fuzzy \in m.flags

\* the identity of a message: (context, id)
KeyOf(m) == <<m.context, m.id>>

\* Catalog(): no messages, no obsolete messages, an empty header (the
\* translation of the message with the empty id), no header comment and no
\* MIME headers (a sequence of <<name, value>>)
EmptyCatalog ==
    [header |-> <<>>, header_comment |-> <<>>, mime_headers |-> <<>>,
     messages |-> <<>>, obsolete |-> <<>>]

HasKey(cat, m) == \E i \in 1..Len(cat.messages) : KeyOf(cat.messages[i]) = KeyOf(m)

\* catalog[id] = message: the entry of an existing key is replaced in place, a
\* new key is appended; the message with the empty id is the catalog's header
CatalogSet(cat, m) ==
    IF ~m.id.tuple /\ m.id.v[1] = <<>> THEN [cat EXCEPT !.header = Concat(m.string.v)]
    ELSE IF HasKey(cat, m)
    THEN [cat EXCEPT !.messages =
            [i \in 1..Len(cat.messages) |->
                IF KeyOf(cat.messages[i]) = KeyOf(m) THEN m ELSE cat.messages[i]]]
    ELSE [cat EXCEPT !.messages = Append(cat.messages, m)]

\* catalog.add(id, string, flags=flags, context=context)
CatalogAdd(cat, id, string, flags, context) ==
    CatalogSet(cat, Message(id, string, flags, context))

\* list(catalog): the header message (empty id), then the messages in order
CatalogIter(cat) ==
    <<Message(PyStr(<<>>), PyStr(cat.header), {}, None)>> \o cat.messages

\* the value Message's comparison methods compare: (id or id[0], context or '')
CmpId(m) == IF m.id.tuple THEN (IF m.id.v = <<>> THEN <<>> ELSE m.id.v[1]) ELSE m.id.v[1]

CmpContext(m) == IF m.context.none THEN <<>> ELSE m.context.v

\* message1 < message2
MessageLess(m1, m2) ==
    \/ StrLess(CmpId(m1), CmpId(m2))
    \/ CmpId(m1) = CmpId(m2) /\ StrLess(CmpContext(m1), CmpContext(m2))

RECURSIVE InsertSorted(_, _)
InsertSorted(sorted, m) ==
    IF sorted = <<>> THEN <<m>>
    ELSE IF MessageLess(m, Head(sorted)) THEN <<m>> \o sorted
    ELSE <<Head(sorted)>> \o InsertSorted(Tail(sorted), m)

RECURSIVE SortMessages(_)
\* list.sort() / sorted(): stable, by MessageLess
SortMessages(ms) ==
    IF ms = <<>> THEN <<>>
    ELSE InsertSorted(SortMessages(SubSeq(ms, 1, Len(ms) - 1)), ms[Len(ms)])

-----------------------------------------------------------------------------
(* write_mo *)

\* str.encode('utf-8') raises UnicodeEncodeError on a surrogate code point
Encodable(s) == \A i \in 1..Len(s) : s[i] < 55296 \/ s[i] > 57343

\* the key bytes of one message (mofile.py line 136), or the exception raised
MoKey(m) ==
    IF ~m.context.none /\ m.context.v # <<>>
    THEN IF m.id.tuple THEN [kind |-> "TypeError", b |-> <<>>]
         ELSE IF ~Encodable(m.context.v \o <<4>> \o m.id.v[1])
              THEN [kind |-> "UnicodeEncodeError", b |-> <<>>]
         ELSE [kind |-> "ok", b |-> Utf8Encode(m.context.v \o <<4>> \o m.id.v[1])]
    ELSE IF m.id.tuple THEN [kind |-> "AttributeError", b |-> <<>>]
         ELSE IF ~Encodable(m.id.v[1]) THEN [kind |-> "UnicodeEncodeError", b |-> <<>>]
         ELSE [kind |-> "ok", b |-> Utf8Encode(m.id.v[1])]

\* the value bytes of one message (mofile.py line 137), or the exception raised
MoValue(m) ==
    IF \E i \in 1..Len(m.string.v) : ~Encodable(m.string.v[i])
    THEN [kind |-> "UnicodeEncodeError", b |-> <<>>]
    ELSE IF ~m.string.tuple THEN [kind |-> "ok", b |-> Utf8Encode(m.string.v[1])]
    ELSE [kind |-> "ok",
          b |-> Join(<<0>>, [i \in 1..Len(m.string.v) |-> Utf8Encode(m.string.v[i])])]

\* the test of mofile.py line 133: the message is left out
MoSkipped(m, fuzzy_too) ==
    ~Truthy(m.id) \/ (~fuzzy_too /\ Fuzzy(m)) \/ ~Truthy(m.string)

RECURSIVE MoCollect(_, _, _)
\* the loop of mofile.py lines 132-141 over the messages from index i on;
\* acc is [kind, ids, strs, offsets]
MoCollect(ms, fuzzy_too, acc) ==
    IF ms = <<>> \/ acc.kind # "ok" THEN acc
    ELSE LET m == Head(ms)
             k == MoKey(m)
             s == MoValue(m)
         IN  IF MoSkipped(m, fuzzy_too) THEN MoCollect(Tail(ms), fuzzy_too, acc)
             ELSE IF k.kind # "ok" THEN [acc EXCEPT !.kind = k.kind]
             ELSE IF s.kind # "ok" THEN [acc EXCEPT !.kind = s.kind]
             ELSE MoCollect(Tail(ms), fuzzy_too,
                    [kind |-> "ok",
                     ids |-> acc.ids \o k.b \o <<0>>,
                     strs |-> acc.strs \o s.b \o <<0>>,
                     offsets |-> Append(acc.offsets,
                                    <<Len(acc.ids), Len(k.b), Len(acc.strs), Len(s.b)>>)])

\* koffsets and voffsets of mofile.py lines 148-150
MoKOffsets(offsets, keystart) ==
    Concat([i \in 1..Len(offsets) |-> <<offsets[i][1] + keystart, offsets[i][2]>>])

MoVOffsets(offsets, valuestart) ==
    Concat([i \in 1..Len(offsets) |-> <<offsets[i][3] + valuestart, offsets[i][4]>>])

\* the table list handed to array.array("I", ...): mofile.py line 151
MoOffsets(offsets, ids) ==
    LET keystart == 7 * 4 + 16 * Len(offsets)
        valuestart == keystart + Len(ids)
    IN  MoKOffsets(offsets, keystart) \o MoVOffsets(offsets, valuestart)

\* the seven header words of mofile.py lines 153-160
MoHeader(table) ==
    <<LE_MAGIC, U32(0), U32(Len(table) \div 4), U32(7 * 4),
      U32(7 * 4 + (Len(table) \div 2)), U32(0), U32(0)>>

\* write_mo(fileobj, cat, use_fuzzy=fuzzy_too) on a host of byte order `order`:
\* [kind |-> "ok", buf |-> the bytes written], or the exception raised
write_mo(cat, fuzzy_too, order) ==
    LET messages == SortMessages(CatalogIter(cat))
        got == MoCollect(messages, fuzzy_too,
                         [kind |-> "ok", ids |-> <<>>, strs |-> <<>>, offsets |-> <<>>])
        table == MoOffsets(got.offsets, got.ids)
    IN  IF got.kind # "ok" THEN [kind |-> got.kind, buf |-> <<>>]
        ELSE [kind |-> "ok",
              buf |-> PackAll(order, MoHeader(table))
                        \o PackAll(order, [i \in 1..Len(table) |-> U32(table[i])])
                        \o got.ids \o got.strs]

-----------------------------------------------------------------------------
(* read_mo *)

\* the message read_mo adds for one index entry (mofile.py lines 59-71), or the
\* exception raised: msg and tmsg are the key and the value bytes
MoEntry(msg, tmsg) ==
    IF Contains(msg, 0)
    THEN LET ids == SplitOn(msg, 0)
             strs == SplitOn(tmsg, 0)
         IN  IF Len(ids) # 2 THEN [kind |-> "ValueError"]
             ELSE IF \E i \in 1..2 : ~Utf8Valid(ids[i]) THEN [kind |-> "UnicodeDecodeError"]
             ELSE IF \E i \in 1..Len(strs) : ~Utf8Valid(strs[i])
                  THEN [kind |-> "UnicodeDecodeError"]
             ELSE [kind |-> "ok",
                   id |-> PyTuple(<<Utf8Decode(ids[1]), Utf8Decode(ids[2])>>),
                   string |-> IF Len(strs) > 1
                              THEN PyTuple([i \in 1..Len(strs) |-> Utf8Decode(strs[i])])
                              ELSE PyStr(Utf8Decode(strs[1]))]
    ELSE IF ~Utf8Valid(msg) \/ ~Utf8Valid(tmsg) THEN [kind |-> "UnicodeDecodeError"]
    ELSE [kind |-> "ok", id |-> PyStr(Utf8Decode(msg)), string |-> PyStr(Utf8Decode(tmsg))]

RECURSIVE MoReadEntries(_, _, _, _, _, _, _)
\* the loop of mofile.py lines 51-74 from iteration i on
MoReadEntries(buf, ii, i, msgcount, masteridx, transidx, cat) ==
    IF ~GtU(msgcount, i) THEN [kind |-> "ok", catalog |-> cat]
    ELSE LET mraw == SliceU(buf, masteridx, AddU(masteridx, U32(8)))
             traw == SliceU(buf, transidx, AddU(transidx, U32(8)))
         IN  IF Len(mraw) # 8 \/ Len(traw) # 8
             THEN [kind |-> "struct.error", catalog |-> EmptyCatalog]
             ELSE LET mlen == UnpackI(ii, SubSeq(mraw, 1, 4))
                      moff == UnpackI(ii, SubSeq(mraw, 5, 8))
                      mend == AddU(moff, mlen)
                      tlen == UnpackI(ii, SubSeq(traw, 1, 4))
                      toff == UnpackI(ii, SubSeq(traw, 5, 8))
                      tend == AddU(toff, tlen)
                  IN  IF GtU(mend, Len(buf)) \/ GtU(tend, Len(buf))
                      THEN [kind |-> "IOError", catalog |-> EmptyCatalog]
                      ELSE LET e == MoEntry(SliceU(buf, moff, mend), SliceU(buf, toff, tend))
                           IN  IF e.kind # "ok"
                               THEN [kind |-> e.kind, catalog |-> EmptyCatalog]
                               ELSE MoReadEntries(buf, ii, i + 1, msgcount,
                                        AddU(masteridx, U32(8)), AddU(transidx, U32(8)),
                                        CatalogAdd(cat, e.id, e.string, {}, None))

\* the header fields after the magic number: version, msgcount, masteridx, transidx
MoFields(order, raw) == [i \in 1..4 |-> UnpackI(order, SubSeq(raw, 4 * i - 3, 4 * i))]

\* read_mo(fileobj) for a file holding buf: [kind |-> "ok", catalog |-> the
\* catalog returned], or the exception raised (and no catalog)
read_mo(buf) ==
    IF Len(Slice(buf, 0, 4)) # 4 THEN [kind |-> "struct.error", catalog |-> EmptyCatalog]
    ELSE LET magic == UnpackI("<", Slice(buf, 0, 4))
             ii == IF magic = LE_MAGIC THEN "<" ELSE ">"
             raw == Slice(buf, 4, 20)
         IN  IF magic # LE_MAGIC /\ magic # BE_MAGIC
             THEN [kind |-> "IOError", catalog |-> EmptyCatalog]
             ELSE IF Len(raw) # 16 THEN [kind |-> "struct.error", catalog |-> EmptyCatalog]
             ELSE LET f == MoFields(ii, raw)
                  IN  IF f[1] # U32(0) /\ f[1] # U32(1)
                      THEN [kind |-> "IOError", catalog |-> EmptyCatalog]
                      ELSE MoReadEntries(buf, ii, 0, f[2], f[3], f[4], EmptyCatalog)

-----------------------------------------------------------------------------
(* MO files as read_mo's input: the layout of the format, built for the       *)
(* scenarios from a byte order, the header words and the (key, value) blobs   *)

RECURSIVE BlobOffsets(_, _)
\* the offset of each blob when they are laid out from `start`, each followed
\* by a NUL byte
BlobOffsets(blobs, start) ==
    IF blobs = <<>> THEN <<>>
    ELSE <<start>> \o BlobOffsets(Tail(blobs), start + Len(Head(blobs)) + 1)

\* an index table: (length, offset) per blob
IndexTable(blobs, start) ==
    LET offs == BlobOffsets(blobs, start)
    IN  Concat([i \in 1..Len(blobs) |-> <<U32(Len(blobs[i])), U32(offs[i])>>])

\* a well-formed file of `entries` (pairs <<key bytes, value bytes>>) in byte
\* order `order`, declaring magic number `magic`, version `version` and
\* `count` messages
MoFile(order, magic, version, count, entries) ==
    LET n == Len(entries)
        keys == [i \in 1..n |-> entries[i][1]]
        values == [i \in 1..n |-> entries[i][2]]
        keyblob == Concat([i \in 1..n |-> keys[i] \o <<0>>])
        valueblob == Concat([i \in 1..n |-> values[i] \o <<0>>])
        keystart == 28 + 16 * n
    IN  PackAll(order, <<magic, version, count, U32(28), U32(28 + 8 * n), U32(0), U32(0)>>)
        \o PackAll(order, IndexTable(keys, keystart))
        \o PackAll(order, IndexTable(values, keystart + Len(keyblob)))
        \o keyblob \o valueblob

\* a word that is neither magic number in either byte order (0x950412df)
BadMagic == [hi |-> 38148, lo |-> 4831]

FileMagics == {LE_MAGIC, BadMagic}

\* versions 0..MaxVersion, and 0x10000 (major revision 1)
FileVersions == {U32(n) : n \in 0..MaxVersion} \cup {[hi |-> 1, lo |-> 0]}

\* (key, value) blobs: "a" -> "b"; the plural "a\0b" -> "c\0d"; the plural
\* "a\0b" with a single translation; "é" -> "b"
FileEntries ==
    { <<<<97>>, <<98>>>>,
      <<<<97, 0, 98>>, <<99, 0, 100>>>>,
      <<<<97, 0, 98>>, <<99>>>>,
      <<<<195, 169>>, <<98>>>> }

RECURSIVE SeqsUpTo(_, _)
\* the sequences over S of length at most n
SeqsUpTo(S, n) ==
    IF n = 0 THEN {<<>>}
    ELSE LET shorter == SeqsUpTo(S, n - 1)
         IN  shorter \cup {Append(s, x) : s \in shorter, x \in S}

-----------------------------------------------------------------------------
(* write_po *)

RECURSIVE SplitLines(_)
\* s.splitlines(): the lines without their line breaks
SplitLines(s) ==
    IF s = <<>> THEN <<>>
    ELSE LET n == FirstLineLen(s)
             brk == IF ~IsLineBreak(s[n]) THEN 0
                    ELSE IF n > 1 /\ s[n] = 10 /\ s[n - 1] = 13 THEN 2 ELSE 1
         IN  <<SubSeq(s, 1, n - brk)>> \o SplitLines(SubSeq(s, n + 1, Len(s)))

RECURSIVE IntToStr(_)
\* str(n) for n >= 0, as an f-string formats an int
IntToStr(n) == IF n < 10 THEN <<48 + n>> ELSE IntToStr(n \div 10) \o <<48 + (n % 10)>>

RECURSIVE SortStrs(_)
\* sorted(S) for a set of str
SortStrs(S) ==
    IF S = {} THEN <<>>
    ELSE LET least == CHOOSE s \in S : \A t \in S \ {s} : StrLess(s, t)
         IN  <<least>> \o SortStrs(S \ {least})

\* the keyword arguments of write_po, with their defaults
PoDefaults ==
    [width |-> Width(76), no_location |-> FALSE, omit_header |-> FALSE,
     sort_output |-> FALSE, sort_by_file |-> FALSE, ignore_obsolete |-> FALSE,
     include_previous |-> FALSE, include_lineno |-> TRUE]

\* what a run of write() calls did: the bytes that reached the file, and "ok"
\* or the exception that ended the run
Wrote(bytes) == [kind |-> "ok", out |-> bytes]

Raised(exc) == [kind |-> exc, out |-> <<>>]

\* one run after another: the second only if the first did not raise
Then(r1, r2) ==
    IF r1.kind # "ok" THEN r1 ELSE [kind |-> r2.kind, out |-> r1.out \o r2.out]

RECURSIVE ThenAll(_)
ThenAll(rs) == IF rs = <<>> THEN Wrote(<<>>) ELSE Then(Head(rs), ThenAll(Tail(rs)))

\* write(text): text.encode(catalog.charset), then fileobj.write
write(text) ==
    IF Encodable(text) THEN Wrote(Utf8Encode(text)) ELSE Raised("UnicodeEncodeError")

\* write_comment(comment, prefix)
write_comment(comment, prefix) ==
    IF comment # <<>> THEN write(<<35, 32>> \o prefix \o comment \o <<10>>)
    ELSE Wrote(<<>>)

\* write(keyword + normalize(x, width=width)) for x a str or a tuple: a tuple
\* has no splitlines()
WriteNormalized(keyword, x, width) ==
    IF x.tuple THEN Raised("AttributeError")
    ELSE write(keyword \o normalize(x.v[1], <<>>, width))

\* the location comments of write_entry
WriteLocations(message, o) ==
    IF o.no_location THEN Wrote(<<>>)
    ELSE ThenAll([i \in 1..Len(message.locations) |->
            LET filename == message.locations[i][1]
                lineno == message.locations[i][2]
            IN  IF o.include_lineno /\ ~lineno.none /\ lineno.v # 0
                THEN write(<<35, 58, 32>> \o filename \o <<58>> \o IntToStr(lineno.v) \o <<10>>)
                ELSE write(<<35, 58, 32>> \o filename \o <<10>>)])

\* the flags comment of write_entry
WriteFlags(message) ==
    IF message.flags # {}
    THEN write(<<35, 44, 32>> \o Join(<<44, 32>>, SortStrs(message.flags)) \o <<10>>)
    ELSE Wrote(<<>>)

\* 'msgid ', 'msgid_plural ', 'msgstr ' and 'Previous '
L_msgid == <<109, 115, 103, 105, 100, 32>>

L_msgid_plural == <<109, 115, 103, 105, 100, 95, 112, 108, 117, 114, 97, 108, 32>>

L_msgstr == <<109, 115, 103, 115, 116, 114, 32>>

L_previous == <<80, 114, 101, 118, 105, 111, 117, 115, 32>>

\* the previous-id comments of write_entry
WritePrevious(message, o) ==
    IF Truthy(message.previous_id) /\ o.include_previous
    THEN LET prev == message.previous_id
             item(i) == IF prev.tuple THEN prev.v[i] ELSE <<prev.v[1][i]>>
             n == IF prev.tuple THEN Len(prev.v) ELSE Len(prev.v[1])
         IN  Then(write_comment(L_msgid \o item(1), L_previous),
                  IF n > 1 THEN write_comment(L_msgid_plural \o item(2), L_previous)
                  ELSE Wrote(<<>>))
    ELSE Wrote(<<>>)

\* the items enumerate(message.string) yields: the strings of a tuple, the
\* characters of a str
StringItems(x) == IF x.tuple THEN x.v ELSE [i \in 1..Len(x.v[1]) |-> <<x.v[1][i]>>]

\* the msgid_plural and msgstr[idx] part of write_entry, for an id that is a
\* tuple
WritePlural(message, o) ==
    IF Len(message.id.v) < 2 THEN Raised("IndexError")
    ELSE Then(WriteNormalized(L_msgid_plural, PyStr(message.id.v[2]), o.width),
              ThenAll([i \in 1..Len(StringItems(message.string)) |->
                  write(<<109, 115, 103, 115, 116, 114, 91>> \o IntToStr(i - 1) \o <<93, 32>>
                        \o normalize(StringItems(message.string)[i], <<>>, o.width))]))

\* write_entry(message, plural)
write_entry(message, plural, o) ==
    ThenAll(<<WriteLocations(message, o),
              WriteFlags(message),
              WritePrevious(message, o),
              ThenAll([i \in 1..Len(message.auto_comments) |->
                          write_comment(message.auto_comments[i], <<46>>)]),
              ThenAll([i \in 1..Len(message.user_comments) |->
                          write_comment(message.user_comments[i], <<>>)]),
              WriteNormalized(L_msgid, message.id, o.width),
              IF plural THEN WritePlural(message, o)
              ELSE WriteNormalized(L_msgstr,
                      IF Truthy(message.string) THEN message.string ELSE PyStr(<<>>),
                      o.width),
              write(<<10>>)>>)

\* the attributes of a Message
MessageAttributes ==
    {"id", "string", "locations", "flags", "auto_comments", "user_comments",
     "previous_id", "context", "lineno", "fuzzy"}

\* (filename, lineno) < (filename, lineno), for tuples that differ
LocLess(a, b) == StrLess(a[1], b[1]) \/ (a[1] = b[1] /\ a[2].v < b[2].v)

RECURSIVE LocsLess(_, _)
\* locations1 < locations2: lists compare by their first differing items
LocsLess(x, y) ==
    IF y = <<>> THEN FALSE
    ELSE IF x = <<>> THEN TRUE
    ELSE IF Head(x) = Head(y) THEN LocsLess(Tail(x), Tail(y))
    ELSE LocLess(Head(x), Head(y))

RECURSIVE LocsComparable(_, _)
\* whether < is defined on the two lists: their first differing items are not
\* the same file with a line number on one side and None on the other
LocsComparable(x, y) ==
    IF x = <<>> \/ y = <<>> THEN TRUE
    ELSE IF Head(x) = Head(y) THEN LocsComparable(Tail(x), Tail(y))
    ELSE Head(x)[1] # Head(y)[1] \/ Head(x)[2].none = Head(y)[2].none

RECURSIVE InsertByLocations(_, _)
InsertByLocations(sorted, m) ==
    IF sorted = <<>> THEN <<m>>
    ELSE IF LocsLess(m.locations, Head(sorted).locations) THEN <<m>> \o sorted
    ELSE <<Head(sorted)>> \o InsertByLocations(Tail(sorted), m)

RECURSIVE SortByLocations(_)
\* sorted(messages, key=lambda m: m.locations): stable
SortByLocations(ms) ==
    IF ms = <<>> THEN <<>>
    ELSE InsertByLocations(SortByLocations(SubSeq(ms, 1, Len(ms) - 1)), ms[Len(ms)])

\* the header block of write_po
WriteHeader(cat) ==
    ThenAll(<<write(<<109, 115, 103, 105, 100, 32, 34, 34, 10>>),          \* 'msgid ""\n'
              write(<<109, 115, 103, 115, 116, 114, 32, 34, 34, 10>>),     \* 'msgstr ""\n'
              ThenAll([i \in 1..Len(SplitLines(cat.header_comment)) |->
                          write(<<35, 32>> \o SplitLines(cat.header_comment)[i] \o <<10>>)]),
              ThenAll([i \in 1..Len(cat.mime_headers) |->
                          write(<<34>> \o cat.mime_headers[i][1] \o <<58, 32>>
                                \o cat.mime_headers[i][2] \o <<92, 110, 34, 10>>)]),
              write(<<10>>)>>)

\* one pass of the loop over the messages (pofile.py lines 363-369)
WriteMessage(message, o) ==
    IF ~Truthy(message.id) THEN Wrote(<<>>)
    ELSE IF o.ignore_obsolete /\ "obsolete" \notin MessageAttributes
    THEN Raised("AttributeError")
    ELSE write_entry(message, message.id.tuple, o)

\* write_po(fileobj, catalog, **o): "ok" or the exception raised, and the bytes
\* written to fileobj until then
write_po(cat, o) ==
    LET iter == CatalogIter(cat)
        sorted == IF o.sort_output THEN SortMessages(iter) ELSE iter
        comparable == \A i, j \in 1..Len(sorted) :
                          LocsComparable(sorted[i].locations, sorted[j].locations)
        messages == IF o.sort_by_file THEN SortByLocations(sorted) ELSE sorted
    IN  IF o.sort_by_file /\ ~comparable THEN Raised("TypeError")
        ELSE ThenAll(<<
            IF o.omit_header THEN Wrote(<<>>) ELSE WriteHeader(cat),
            ThenAll([i \in 1..Len(messages) |-> WriteMessage(messages[i], o)]),
            IF o.ignore_obsolete THEN Wrote(<<>>)
            ELSE ThenAll([i \in 1..Len(cat.obsolete) |->
                    Then(write(<<35, 126, 32>>),                           \* '#~ '
                         write_entry(cat.obsolete[i], FALSE, o))])>>)

-----------------------------------------------------------------------------
(* PoFileParser, read_po *)

\* the methods the class PoFileParser defines
PoFileParserMethods == {"__init__", "_add_message", "parse"}

\* self.<name>() for a name the class does not define raises AttributeError
HasMethod(name) == name \in PoFileParserMethods

\* PoFileParser(catalog, ignore_obsolete, abort_invalid): the parser, or the
\* exception of its last statement
PoFileParser(cat, ignore_obsolete, abort_invalid) ==
    IF ~HasMethod("_reset_message_state") THEN [kind |-> "AttributeError"]
    ELSE [kind |-> "ok",
          parser |-> [catalog |-> cat, ignore_obsolete |-> ignore_obsolete,
                      counter |-> 0, offset |-> 0, abort_invalid |-> abort_invalid]]

RECURSIVE FileLines(_)
\* the lines iterating over a binary file yields: each ends at its \n
FileLines(buf) ==
    IF buf = <<>> THEN <<>>
    ELSE LET n == IF \A i \in 1..Len(buf) : buf[i] # 10 THEN Len(buf)
                  ELSE CHOOSE k \in 1..Len(buf) : buf[k] = 10 /\ \A j \in 1..(k - 1) : buf[j] # 10
         IN  <<SubSeq(buf, 1, n)>> \o FileLines(SubSeq(buf, n + 1, Len(buf)))

RECURSIVE ParseLines(_, _, _)
\* the loop of parse over the lines from the i-th on, and the final
\* _flush_message()
ParseLines(parser, lines, i) ==
    IF i > Len(lines)
    THEN IF ~HasMethod("_flush_message") THEN [kind |-> "AttributeError"]
         ELSE [kind |-> "ok", catalog |-> parser.catalog]
    ELSE IF ~Utf8Valid(lines[i]) THEN [kind |-> "UnicodeDecodeError"]
    ELSE IF \E k \in 1..Len(Utf8Decode(lines[i])) : ~IsSpace(Utf8Decode(lines[i])[k])
    THEN IF ~HasMethod("_process_line") THEN [kind |-> "AttributeError"]
         ELSE ParseLines([parser EXCEPT !.counter = @ + 1,
                                        !.offset = @ + Len(Utf8Decode(lines[i]))], lines, i + 1)
    ELSE IF ~HasMethod("_flush_message") THEN [kind |-> "AttributeError"]
         ELSE ParseLines([parser EXCEPT !.counter = @ + 1,
                                        !.offset = @ + Len(Utf8Decode(lines[i]))], lines, i + 1)

\* PoFileParser.parse(fileobj)
parse(parser, fileobj) ==
    IF ~HasMethod("_reset_message_state") THEN [kind |-> "AttributeError"]
    ELSE ParseLines([parser EXCEPT !.counter = 0, !.offset = 0], FileLines(fileobj), 1)

\* read_po(fileobj, ignore_obsolete=ignore_obsolete, abort_invalid=abort_invalid)
read_po(fileobj, ignore_obsolete, abort_invalid) ==
    LET made == PoFileParser(EmptyCatalog, ignore_obsolete, abort_invalid)
    IN  IF made.kind # "ok" THEN made ELSE parse(made.parser, fileobj)

-----------------------------------------------------------------------------
(* str methods used by the number pattern engine *)

\* s.rfind(c): the 0-based index of the last c in s, or -1
RFind(s, c) ==
    IF ~Contains(s, c) THEN -1
    ELSE (CHOOSE k \in 1..Len(s) : s[k] = c /\ \A j \in (k + 1)..Len(s) : s[j] # c) - 1

\* s.replace(c, '')
Without(s, c) == Replace(s, <<c>>, <<>>)

\* s.partition(c)[0] and s.partition(c)[2]
BeforeFirst(s, c) == SplitOn(s, c)[1]

AfterFirst(s, c) ==
    IF ~Contains(s, c) THEN <<>> ELSE SubSeq(s, Len(BeforeFirst(s, c)) + 2, Len(s))

RECURSIVE RStrip(_, _)
\* s.rstrip(c)
RStrip(s, c) ==
    IF s # <<>> /\ s[Len(s)] = c THEN RStrip(SubSeq(s, 1, Len(s) - 1), c) ELSE s

RECURSIVE Strip(_)
\* s.strip()
Strip(s) ==
    IF s = <<>> THEN s
    ELSE IF IsSpace(s[1]) THEN Strip(Tail(s))
    ELSE IF IsSpace(s[Len(s)]) THEN Strip(SubSeq(s, 1, Len(s) - 1))
    ELSE s

-----------------------------------------------------------------------------
(* number_re, parse_grouping, parse_pattern, NumberPattern *)

\* [0-9@#.,], the characters PREFIX_END excludes
IsPrefixEnd(c) == (c >= 48 /\ c <= 57) \/ c \in {64, 35, 46, 44}

\* NUMBER_TOKEN: [0-9@#.,E+]
IsNumberToken(c) == IsPrefixEnd(c) \/ c \in {69, 43}

RECURSIVE PrefixLen(_)
\* the length of what PREFIX_PATTERN matches at the start of s: quoted runs
\* '...' and characters other than [0-9@#.,], as many as there are
PrefixLen(s) ==
    IF s = <<>> THEN 0
    ELSE IF s[1] = 39 /\ Contains(Tail(s), 39)
    THEN LET n == Len(BeforeFirst(Tail(s), 39)) + 2
         IN  n + PrefixLen(SubSeq(s, n + 1, Len(s)))
    ELSE IF ~IsPrefixEnd(s[1]) THEN 1 + PrefixLen(Tail(s))
    ELSE 0

RECURSIVE NumberLen(_)
\* the length of what NUMBER_PATTERN matches at the start of s
NumberLen(s) ==
    IF s # <<>> /\ IsNumberToken(s[1]) THEN 1 + NumberLen(Tail(s)) ELSE 0

\* the length of what SUFFIX_PATTERN matches at the start of s: . matches
\* every character but \n
SuffixLen(s) == Len(BeforeFirst(s, 10))

\* the groups of the match, from the lengths p and n of the first two
MatchGroups(s, p, n) ==
    [prefix |-> SubSeq(s, 1, p), number |-> SubSeq(s, p + 1, p + n),
     suffix |-> SubSeq(s, p + n + 1, p + n + SuffixLen(SubSeq(s, p + n + 1, Len(s))))]

\* the match after its prefix, of length p
MatchAfterPrefix(s, p) == MatchGroups(s, p, NumberLen(SubSeq(s, p + 1, Len(s))))

\* number_re.match(s): the three groups
NumberReMatch(s) == MatchAfterPrefix(s, PrefixLen(s))

RECURSIVE NumberReSplit(_)
\* the items number_re.split(s) yields for the match m at the start of s and
\* for what follows it
SplitAfterMatch(s, m) ==
    <<<<>>, m.prefix, m.number, m.suffix>>
        \o NumberReSplit(SubSeq(s, Len(m.prefix) + Len(m.number) + Len(m.suffix) + 1, Len(s)))

\* number_re.split(s): the text before each match (empty: every match begins
\* where the one before ended), the groups of each match, and the rest; the
\* last match is the empty one at the end of s
NumberReSplit(s) ==
    IF s = <<>> THEN <<<<>>, <<>>, <<>>, <<>>, <<>>>>
    ELSE SplitAfterMatch(s, NumberReMatch(s))

\* parse_grouping(p)
parse_grouping(p) ==
    LET width == Len(p)
        r1 == RFind(p, 44)
        g1 == width - r1 - 1
        r2 == RFind(SubSeq(p, 1, Len(p) - g1 - 1), 44)           \* p[:-g1 - 1]
    IN  IF r1 = -1 THEN <<1000, 1000>>
        ELSE IF r2 = -1 THEN <<g1, g1>>
        ELSE <<g1, width - g1 - r2 - 2>>

\* the test of extract_affix on a part
IsAffixPart(part) ==
    part # <<>> /\ \A c \in {48, 35, 44, 46, 69} : ~Contains(part, c)

RECURSIVE AffixLoop(_, _, _)
\* the loop of extract_affix over the parts
AffixLoop(parts, prefix, suffix) ==
    IF parts = <<>> THEN <<prefix, suffix>>
    ELSE IF IsAffixPart(Head(parts))
    THEN IF prefix # <<>> THEN AffixLoop(Tail(parts), prefix, Head(parts))
         ELSE AffixLoop(Tail(parts), Head(parts), suffix)
    ELSE AffixLoop(Tail(parts), prefix, suffix)

\* extract_affix(pattern)
extract_affix(pattern) == AffixLoop(NumberReSplit(pattern), <<>>, <<>>)

\* an optional value: None, or a value
Nothing == [none |-> TRUE]

Just(x) == [none |-> FALSE, v |-> x]

\* NumberPattern.compute_scale(), from the prefix and suffix pairs
compute_scale(prefix, suffix) ==
    LET joined == prefix[1] \o prefix[2] \o suffix[1] \o suffix[2]
    IN  IF Contains(joined, 37) THEN 2
        ELSE IF Contains(joined, 8240) THEN 3
        ELSE 0

\* NumberPattern(pattern, prefix, suffix, grouping, int_prec, frac_prec,
\* exp_prec, exp_plus, number_pattern)
NumberPattern(pattern, prefix, suffix, grouping, int_prec, frac_prec, exp_prec, exp_plus, number_pattern) ==
    [pattern |-> pattern, prefix |-> prefix, suffix |-> suffix,
     number_pattern |-> number_pattern, grouping |-> grouping, int_prec |-> int_prec,
     frac_prec |-> frac_prec, exp_prec |-> exp_prec, exp_plus |-> exp_plus,
     scale |-> compute_scale(prefix, suffix)]

\* the grouping parse_pattern derives from the number part (lines 1084-1088)
PatternGrouping(number) ==
    IF Contains(number, 44) THEN parse_grouping(BeforeFirst(number, 46))
    ELSE <<1000, 1000>>

\* the integer precision of an integer part (lines 1094-1095, 1099-1100)
PatternIntPrec(integer) ==
    <<Len(Without(Without(integer, 44), 35)), Len(Without(integer, 44))>>

\* exp_prec from the text after the first 'E' (lines 1106-1111)
PatternExpPrec(exp_part) ==
    IF Contains(exp_part, 43) THEN Just(Len(exp_part) - 1) ELSE Just(Len(exp_part))

\* the end of parse_pattern (lines 1102-1116), given the affixes, the number
\* part and the precisions
PatternResult(pattern, pos, neg, number, int_prec, frac_prec) ==
    [kind |-> "ok",
     pattern |-> NumberPattern(pattern, <<pos[1], neg[1]>>, <<pos[2], neg[2]>>,
                    PatternGrouping(number), int_prec, frac_prec,
                    IF Contains(number, 69) THEN PatternExpPrec(SplitOn(number, 69)[2])
                    ELSE Nothing,
                    IF Contains(number, 69) THEN Just(Contains(SplitOn(number, 69)[2], 43))
                    ELSE Nothing,
                    number)]

\* integer, fraction = number.split('.') and what follows
PatternDotted(pattern, pos, neg, number, dotted) ==
    IF Len(dotted) # 2 THEN [kind |-> "ValueError"]
    ELSE PatternResult(pattern, pos, neg, number, PatternIntPrec(dotted[1]),
                       Just(<<Len(Without(dotted[2], 35)), Len(dotted[2])>>))

\* parse_pattern from line 1080 on, given the affixes and the number part
PatternNumber(pattern, pos, neg, number) ==
    IF Contains(number, 46)
    THEN PatternDotted(pattern, pos, neg, number, SplitOn(number, 46))
    ELSE PatternResult(pattern, pos, neg, number, PatternIntPrec(number), Nothing)

\* parse_pattern from line 1074 on, given the positive affixes
PatternNegative(pattern, positive, negative, pos) ==
    PatternNumber(pattern, pos,
                  IF negative # <<>> THEN extract_affix(negative)
                  ELSE <<<<45>> \o pos[1], pos[2]>>,
                  NumberReMatch(positive).number)

\* parse_pattern from line 1062 on, given the two sub-patterns
PatternHalves(pattern, positive, negative) ==
    PatternNegative(pattern, positive, negative, extract_affix(positive))

\* positive, negative = pattern.split(';') and what follows
PatternSplit(pattern, halves) ==
    IF Len(halves) # 2 THEN [kind |-> "ValueError"]
    ELSE PatternHalves(pattern, halves[1], halves[2])

\* parse_pattern(pattern) for a str: the NumberPattern, or the ValueError of
\* an unpacking of more or fewer parts than two
parse_pattern(pattern) ==
    IF Contains(pattern, 59) THEN PatternSplit(pattern, SplitOn(pattern, 59))
    ELSE PatternHalves(pattern, pattern, <<>>)

-----------------------------------------------------------------------------
(* decimal.Decimal *)

\* a finite Decimal is (-1)^sign * coeff * 10^exp; the others are the
\* infinities and NaN
Dec(sign, coeff, exp) == [special |-> "", sign |-> sign, coeff |-> coeff, exp |-> exp]

DecInfinity(sign) == [special |-> "Infinity", sign |-> sign, coeff |-> 0, exp |-> 0]

DecNaN == [special |-> "NaN", sign |-> 0, coeff |-> 0, exp |-> 0]

RECURSIVE Pow10(_)
Pow10(n) == IF n <= 0 THEN 1 ELSE 10 * Pow10(n - 1)

\* value < 0, for a value that is not NaN
DecIsNegative(v) ==
    IF v.special = "Infinity" THEN v.sign = 1 ELSE v.sign = 1 /\ v.coeff # 0

\* value * (10 ** scale)
DecTimesPow10(v, scale) ==
    IF v.special # "" THEN v ELSE [v EXCEPT !.coeff = @ * Pow10(scale)]

\* a finite value with the exponent e under ROUND_HALF_UP, which is not the
\* rounding of the default context: a tie goes away from zero
DecRescaleHalfUp(v, e) ==
    IF v.exp >= e THEN [v EXCEPT !.coeff = @ * Pow10(v.exp - e), !.exp = e]
    ELSE [v EXCEPT !.coeff = (2 * @ + Pow10(e - v.exp)) \div (2 * Pow10(e - v.exp)),
                   !.exp = e]

\* a finite value with the exponent e: exact when e is not above the value's
\* exponent, rounded half-even (the context's rounding) when it is
DecRescale(v, e) ==
    IF v.exp >= e THEN [v EXCEPT !.coeff = @ * Pow10(v.exp - e), !.exp = e]
    ELSE LET unit == Pow10(e - v.exp)
             q == v.coeff \div unit
             r == v.coeff % unit
             up == 2 * r > unit \/ (2 * r = unit /\ q % 2 = 1)
         IN  [v EXCEPT !.coeff = IF up THEN q + 1 ELSE q, !.exp = e]

\* abs(value)
DecAbs(v) == [v EXCEPT !.sign = 0]

\* value >= n for a finite value that is not negative and an int n
DecGeInt(v, n) ==
    IF v.exp >= 0 THEN v.coeff * Pow10(v.exp) >= n
    ELSE v.coeff \div Pow10(0 - v.exp) >= n

RECURSIVE Log10(_)
\* the number of zeros of a power of ten
Log10(n) == IF n < 10 THEN 0 ELSE 1 + Log10(n \div 10)

RECURSIVE DecReduced(_, _)
\* the quotient v brought back towards the exponent ideal, as far as zeros
\* at the end of the coefficient allow
DecReduced(v, ideal) ==
    IF v.coeff = 0 THEN [v EXCEPT !.exp = ideal]
    ELSE IF v.exp < ideal /\ v.coeff % 10 = 0
    THEN DecReduced([v EXCEPT !.coeff = @ \div 10, !.exp = @ + 1], ideal)
    ELSE v

\* number / magnitude for a finite number and a magnitude that is a power of
\* ten written as an integer: the quotient is exact
DecDivide(number, magnitude) ==
    DecReduced([number EXCEPT !.exp = @ - Log10(magnitude.coeff)], number.exp)

RECURSIVE Digits(_, _)
\* the n last decimal digits of x, as a str
Digits(x, n) == IF n <= 0 THEN <<>> ELSE Digits(x \div 10, n - 1) \o <<48 + (x % 10)>>

\* f"{value:.{n}f}".partition("."): the text before and the text after the
\* decimal point
DecFormatF(v, n) ==
    LET sign == IF v.sign = 1 THEN <<45>> ELSE <<>>
        r == DecRescale(v, -n)
    IN  IF v.special = "Infinity"
        THEN [a |-> sign \o <<73, 110, 102, 105, 110, 105, 116, 121>>, b |-> <<>>]
        ELSE IF v.special = "NaN" THEN [a |-> sign \o <<78, 97, 78>>, b |-> <<>>]
        ELSE [a |-> sign \o IntToStr(r.coeff \div Pow10(n)), b |-> Digits(r.coeff % Pow10(n), n)]

\* value.normalize(): no trailing zeros in the coefficient
RECURSIVE DecNormalize(_)
DecNormalize(v) ==
    IF v.special # "" THEN v
    ELSE IF v.coeff = 0 THEN [v EXCEPT !.exp = 0]
    ELSE IF v.coeff % 10 = 0 THEN DecNormalize([v EXCEPT !.coeff = @ \div 10, !.exp = @ + 1])
    ELSE v

\* the value of a run of ASCII digits
RECURSIVE DigitsValue(_)
DigitsValue(s) ==
    IF s = <<>> THEN 0 ELSE 10 * DigitsValue(SubSeq(s, 1, Len(s) - 1)) + (s[Len(s)] - 48)

IsDigits(s) == \A i \in 1..Len(s) : s[i] >= 48 /\ s[i] <= 57

\* the Decimal of the fields of the text, or InvalidOperation
DecFromFields(sign, intpart, fracpart, hasexp, expneg, expdigits) ==
    IF ~(/\ IsDigits(intpart) /\ IsDigits(fracpart)
         /\ intpart \o fracpart # <<>>
         /\ (hasexp => (expdigits # <<>> /\ IsDigits(expdigits))))
    THEN [kind |-> "InvalidOperation"]
    ELSE [kind |-> "ok",
          value |-> Dec(sign, DigitsValue(intpart \o fracpart),
                        (IF ~hasexp THEN 0
                         ELSE IF expneg THEN 0 - DigitsValue(expdigits)
                         ELSE DigitsValue(expdigits)) - Len(fracpart))]

\* the same, from the mantissa and the text after the exponent marker
DecFromParts(sign, mantissa, hasexp, exptext) ==
    DecFromFields(sign, BeforeFirst(mantissa, 46), AfterFirst(mantissa, 46), hasexp,
                  exptext # <<>> /\ exptext[1] = 45,
                  IF exptext # <<>> /\ exptext[1] \in {43, 45} THEN Tail(exptext)
                  ELSE exptext)

\* the same, from the text after the sign, its 'E' lowered
DecFromBody(sign, body) ==
    DecFromParts(sign, BeforeFirst(body, 101), Contains(body, 101), AfterFirst(body, 101))

\* body with 'e' for 'E'
LowerE(body) == [i \in 1..Len(body) |-> IF body[i] = 69 THEN 101 ELSE body[i]]

\* the same, from the text without the whitespace around it
DecFromStripped(s) ==
    IF s # <<>> /\ s[1] \in {43, 45}
    THEN DecFromBody(IF s[1] = 45 THEN 1 ELSE 0, LowerE(Tail(s)))
    ELSE DecFromBody(0, LowerE(s))

\* decimal.Decimal(string) for a string of ASCII digits, signs, '.', 'e', 'E'
\* and whitespace: the Decimal, or InvalidOperation
DecFromStr(string) == DecFromStripped(Strip(string))

-----------------------------------------------------------------------------
(* Locale (babel.core) and the global currency data *)

\* the NumberPattern of '#,##0.###', the default decimal format of both
\* locales, as the locale data holds it
DefaultDecimalFormat ==
    NumberPattern(<<35, 44, 35, 35, 48, 46, 35, 35, 35>>, <<<<>>, <<45>>>>, <<<<>>, <<>>>>,
                  <<3, 3>>, <<1, 4>>, Just(<<0, 3>>), Nothing, Nothing,
                  <<35, 44, 35, 35, 48, 46, 35, 35, 35>>)

\* a Locale: the number symbols of each numbering system it supports, its
\* default numbering system, and its default decimal format, a NumberPattern
\* the currency codes 'USD', 'JPY' and 'EUR' of the locale data
USD == <<85, 83, 68>>
JPY == <<74, 80, 89>>
EUR == <<69, 85, 82>>

\* locale.currency_symbols of both locales: '$', the yen sign, the euro sign
CurrencySymbols ==
    [c \in {USD, JPY, EUR} |-> IF c = USD THEN <<36>> ELSE IF c = JPY THEN <<165>> ELSE <<8364>>]

\* locale.currencies of en_US: 'US dollar(s)', 'Japanese yen', 'euro(s)'
CurrenciesEn ==
    [c \in {USD, JPY, EUR} |->
        IF c = USD THEN [one |-> <<85, 83, 32, 100, 111, 108, 108, 97, 114>>, other |-> <<85, 83, 32, 100, 111, 108, 108, 97, 114, 115>>]
        ELSE IF c = JPY THEN [other |-> <<74, 97, 112, 97, 110, 101, 115, 101, 32, 121, 101, 110>>]
        ELSE [one |-> <<101, 117, 114, 111>>, other |-> <<101, 117, 114, 111, 115>>]]

\* locale.currencies of de: 'US-Dollar', 'Japanischer Yen', 'Euro'
CurrenciesDe ==
    [c \in {USD, JPY, EUR} |->
        IF c = USD THEN [other |-> <<85, 83, 45, 68, 111, 108, 108, 97, 114>>]
        ELSE IF c = JPY THEN [one |-> <<74, 97, 112, 97, 110, 105, 115, 99, 104, 101, 114, 32, 89, 101, 110>>, other |-> <<74, 97, 112, 97, 110, 105, 115, 99, 104, 101, 32, 89, 101, 110>>]
        ELSE [other |-> <<69, 117, 114, 111>>]]

\* the thresholds '1000', '10000', '100000' and '1000000' of the compact
\* tables
T1000 == <<49, 48, 48, 48>>
T10000 == <<49, 48, 48, 48, 48>>
T100000 == <<49, 48, 48, 48, 48, 48>>
T1000000 == <<49, 48, 48, 48, 48, 48, 48>>

\* the short compact decimal patterns of en_US, the same under 'one' and
\* 'other': '0K', '00K', '000K', '0M'
CompactDecimalEn ==
    [t \in {T1000, T10000, T100000, T1000000} |->
        IF t = T1000 THEN <<48, 75>> ELSE IF t = T10000 THEN <<48, 48, 75>>
        ELSE IF t = T100000 THEN <<48, 48, 48, 75>> ELSE <<48, 77>>]

\* the short compact currency patterns of en_US: the same after a currency
\* sign
CompactCurrencyEn ==
    [t \in {T1000, T10000, T100000, T1000000} |->
        IF t = T1000 THEN <<164, 48, 75>> ELSE IF t = T10000 THEN <<164, 48, 48, 75>>
        ELSE IF t = T100000 THEN <<164, 48, 48, 48, 75>> ELSE <<164, 48, 77>>]

\* the short compact patterns of de from a million on: '0', a no-break space
\* and 'Mio', and for a currency '0', the space, 'Mio.', the space and the
\* currency sign
CompactDecimalDe == [t \in {T1000000} |-> <<48, 160, 77, 105, 111>>]
CompactCurrencyDe == [t \in {T1000000} |-> <<48, 160, 77, 105, 111, 46, 160, 164>>]

\* locale.unit_display_names of en_US, category, unit, length, plural form:
\* the category 'length' with the unit 'meter', '{0} meter(s)' and '{0} m'
UnitDisplayNamesEn ==
    [c \in {<<108, 101, 110, 103, 116, 104>>} |->
        [u \in {<<109, 101, 116, 101, 114>>} |->
            [long |-> [one |-> <<123, 48, 125, 32, 109, 101, 116, 101, 114>>, other |-> <<123, 48, 125, 32, 109, 101, 116, 101, 114, 115>>],
             short |-> [one |-> <<123, 48, 125, 32, 109>>, other |-> <<123, 48, 125, 32, 109>>]]]]

\* locale.unit_display_names of de: '{0} Meter' and '{0} m'
UnitDisplayNamesDe ==
    [c \in {<<108, 101, 110, 103, 116, 104>>} |->
        [u \in {<<109, 101, 116, 101, 114>>} |->
            [long |-> [one |-> <<123, 48, 125, 32, 77, 101, 116, 101, 114>>, other |-> <<123, 48, 125, 32, 77, 101, 116, 101, 114>>],
             short |-> [one |-> <<123, 48, 125, 32, 109>>, other |-> <<123, 48, 125, 32, 109>>]]]]

\* en_US, 'latn': decimal '.', group ','; the currency formats
\* (the currency sign is code point 164) standard and accounting
LocaleEnUS ==
    [number_symbols |-> [ns \in {"latn"} |-> [decimal |-> <<46>>, group |-> <<44>>]],
     default_numbering_system |-> "latn",
     decimal_format |-> DefaultDecimalFormat,
     currency_formats |-> [standard |-> <<164, 35, 44, 35, 35, 48, 46, 48, 48>>,
                           accounting |-> <<164, 35, 44, 35, 35, 48, 46, 48, 48, 59, 40, 164, 35, 44, 35, 35, 48, 46, 48, 48, 41>>],
     currency_symbols |-> CurrencySymbols,
     currencies |-> CurrenciesEn,
     compact_decimal_formats |-> [short |-> [one |-> CompactDecimalEn,
                                             other |-> CompactDecimalEn]],
     compact_currency_formats |-> [short |-> [one |-> CompactCurrencyEn,
                                              other |-> CompactCurrencyEn]],
     unit_display_names |-> UnitDisplayNamesEn]

\* de, 'latn': decimal ',', group '.'; the currency formats put the currency
\* sign after the number and a no-break space
LocaleDe ==
    [number_symbols |-> [ns \in {"latn"} |-> [decimal |-> <<44>>, group |-> <<46>>]],
     default_numbering_system |-> "latn",
     decimal_format |-> DefaultDecimalFormat,
     currency_formats |-> [standard |-> <<35, 44, 35, 35, 48, 46, 48, 48, 160, 164>>,
                           accounting |-> <<35, 44, 35, 35, 48, 46, 48, 48, 160, 164>>],
     currency_symbols |-> CurrencySymbols,
     currencies |-> CurrenciesDe,
     compact_decimal_formats |-> [short |-> [other |-> CompactDecimalDe]],
     compact_currency_formats |-> [short |-> [other |-> CompactCurrencyDe]],
     unit_display_names |-> UnitDisplayNamesDe]

\* locale.plural_form(n) of both locales: 'one' for the integer 1 written
\* without fraction digits, 'other' for every other number
plural_form(n) ==
    IF n.special = "" /\ n.sign = 0 /\ n.coeff = 1 /\ n.exp = 0 THEN "one" ELSE "other"

\* whether locale.number_symbols[numbering_system] raises KeyError
HasSymbols(locale, numbering_system) == numbering_system \in DOMAIN locale.number_symbols

\* get_currency_precision(currency): the digits of the currency's entry in
\* the global currency_fractions table, 2 without one; 'JPY' has 0 digits
get_currency_precision(currency) == IF currency = <<74, 80, 89>> THEN 0 ELSE 2

\* get_currency_name(currency, count=count, locale=locale): the name under the
\* count's plural form, else under 'other', else the code itself
get_currency_name(currency, count, locale) ==
    IF currency \notin DOMAIN locale.currencies THEN currency
    ELSE IF plural_form(count) \in DOMAIN locale.currencies[currency]
    THEN locale.currencies[currency][plural_form(count)]
    ELSE locale.currencies[currency].other

\* get_currency_symbol(currency, locale): the symbol, else the code itself
get_currency_symbol(currency, locale) ==
    IF currency \in DOMAIN locale.currency_symbols THEN locale.currency_symbols[currency]
    ELSE currency

-----------------------------------------------------------------------------
(* get_decimal_quantum, NumberPattern.apply, format_decimal, parse_decimal *)

\* get_decimal_quantum(precision) for an int: Decimal('0.1') ** precision
get_decimal_quantum(precision) == Dec(0, 1, 0 - precision)

\* NumberPattern._format_int_part(value, grouping, group_symbol), for a
\* non-zero grouping[0]
_format_int_part(value, grouping, group_symbol) ==
    Concat([k \in 1..Len(value) |->
        LET i == Len(value) - k
        IN  <<value[k]>> \o (IF i # 0 /\ i % grouping[1] = 0 THEN group_symbol ELSE <<>>)])

\* the keyword arguments of apply, with their defaults
ApplyDefaults ==
    [currency |-> Nothing, currency_digits |-> TRUE, decimal_quantization |-> TRUE,
     force_frac |-> Nothing, group_separator |-> TRUE, numbering_system |-> "latn"]

\* the part of apply after the quantization (numbers.py lines 1225-1259), for
\* a value that is not NaN; frac_prec is None or a pair
ApplyRender(self, value, is_negative, frac_prec, locale, kw) ==
    LET numbering_system == IF kw.numbering_system = "default"
                            THEN locale.default_numbering_system
                            ELSE kw.numbering_system
        symbols == locale.number_symbols[numbering_system]
        f == DecFormatF(DecAbs(value), frac_prec.v[2])
        a == IF kw.group_separator THEN _format_int_part(f.a, self.grouping, symbols.group)
             ELSE f.a
        stripped == Slice(RStrip(f.b, 48), 0, frac_prec.v[2])
        b == IF stripped # <<>> THEN symbols.decimal \o stripped ELSE <<>>
        which == IF is_negative THEN 2 ELSE 1
    IN  IF ~HasSymbols(locale, numbering_system)
        THEN [kind |-> "UnsupportedNumberingSystemError"]
        ELSE IF frac_prec.none THEN [kind |-> "TypeError"]
        ELSE IF kw.group_separator /\ self.grouping[1] = 0 /\ Len(f.a) > 1
        THEN [kind |-> "ZeroDivisionError"]
        ELSE [kind |-> "ok", value |-> self.prefix[which] \o a \o b \o self.suffix[which]]

\* self.apply(value, locale, **kw) for a Decimal value: the str returned, or
\* the exception raised
apply(self, value, locale, kw) ==
    LET is_negative == DecIsNegative(value)
        scaled == IF self.scale # 0 THEN DecTimesPow10(value, self.scale) ELSE value
        frac_prec == IF ~kw.currency.none /\ kw.currency.v # <<>> /\ kw.currency_digits
                     THEN Just(<<get_currency_precision(kw.currency.v),
                                 get_currency_precision(kw.currency.v)>>)
                     ELSE IF ~kw.force_frac.none THEN kw.force_frac
                     ELSE self.frac_prec
    IN  IF value.special = "NaN" THEN [kind |-> "InvalidOperation"]
        ELSE IF ~kw.decimal_quantization
        THEN ApplyRender(self, scaled, is_negative, frac_prec, locale, kw)
        ELSE IF frac_prec.none THEN [kind |-> "TypeError"]
        ELSE IF scaled.special = "Infinity" THEN [kind |-> "InvalidOperation"]
        ELSE ApplyRender(self, DecRescale(scaled, get_decimal_quantum(frac_prec.v[2]).exp),
                         is_negative, frac_prec, locale, kw)

\* a NumberPattern whose apply stored the fraction precision it worked with
\* on self: what an apply that kept state on the pattern would leave behind
apply_stores_frac_prec(self) == [self EXCEPT !.frac_prec = Just(<<0, 0>>)]

\* the NumberPattern after self.apply(...): apply assigns no attribute of self
apply_self(self) == self

\* the parameters of NumberPattern.apply
ApplyParameters ==
    {"value", "locale", "currency", "currency_digits", "decimal_quantization",
     "force_frac", "group_separator", "numbering_system"}

\* the keyword arguments of format_decimal, with their defaults; format is
\* None, or a pattern str
FormatDefaults ==
    [format |-> Nothing, decimal_quantization |-> TRUE, group_separator |-> TRUE,
     numbering_system |-> "latn"]

\* numbering_system, or the locale's default for 'default'
NumberingSystem(locale, numbering_system) ==
    IF numbering_system = "default" THEN locale.default_numbering_system
    ELSE numbering_system

\* the keywords of the call format.apply(number, locale, ...) that ends
\* format_decimal
FormatDecimalPasses == {"decimal_quantization", "group_separator", "symbols"}

\* format_decimal from line 515 on, given the outcome of the choice of a
\* pattern
FormatWith(parsed, number, locale, kw) ==
    IF parsed.kind # "ok" THEN parsed
    ELSE IF ~HasSymbols(locale, NumberingSystem(locale, kw.numbering_system))
    THEN [kind |-> "UnsupportedNumberingSystemError"]
    ELSE IF ~(FormatDecimalPasses \subseteq ApplyParameters) THEN [kind |-> "TypeError"]
    ELSE apply(parsed.pattern, number, locale,
               [ApplyDefaults EXCEPT !.decimal_quantization = kw.decimal_quantization,
                                     !.group_separator = kw.group_separator])

\* format_decimal(number, locale=locale, **kw) for a Decimal number
format_decimal(number, locale, kw) ==
    FormatWith(IF kw.format.none THEN [kind |-> "ok", pattern |-> locale.decimal_format]
               ELSE parse_pattern(kw.format.v),
               number, locale, kw)

\* the keyword arguments of format_currency, with their defaults; format is
\* None, or a pattern str
CurrencyDefaults ==
    [format |-> Nothing, currency_digits |-> TRUE, format_type |-> "standard",
     decimal_quantization |-> TRUE, group_separator |-> TRUE, numbering_system |-> "latn"]

\* the end of _format_currency_long_name (lines 715-717), given the outcome
\* of format_decimal; the locales have no 'name_pattern', so the pattern is
\* '{0} {1}'
LongNameWith(formatted, number, currency, locale) ==
    IF formatted.kind # "ok" THEN formatted
    ELSE [kind |-> "ok",
          value |-> formatted.value \o <<32>> \o get_currency_name(currency, number, locale)]

\* _format_currency_long_name(number, currency, format, locale, ...)
_format_currency_long_name(number, currency, locale, kw) ==
    LongNameWith(format_decimal(number, locale,
                                [format |-> kw.format,
                                 decimal_quantization |-> kw.decimal_quantization,
                                 group_separator |-> kw.group_separator,
                                 numbering_system |-> kw.numbering_system]),
                 number, currency, locale)

\* the end of format_currency (lines 707-710), given the outcome of
\* parse_pattern
CurrencyWith(parsed, number, currency, locale, kw) ==
    IF parsed.kind # "ok" THEN parsed
    ELSE apply(parsed.pattern, number, locale,
               [ApplyDefaults EXCEPT !.currency = Just(currency),
                                     !.currency_digits = kw.currency_digits,
                                     !.decimal_quantization = kw.decimal_quantization,
                                     !.group_separator = kw.group_separator,
                                     !.numbering_system = kw.numbering_system])

\* format_currency(number, currency, locale=locale, **kw) for a Decimal
\* number: the format argument is read by the 'name' branch alone, the other
\* branch assigns the locale's pattern of the format type to it
format_currency(number, currency, locale, kw) ==
    IF kw.format_type = "name" THEN _format_currency_long_name(number, currency, locale, kw)
    ELSE IF kw.format_type \notin DOMAIN locale.currency_formats
    THEN [kind |-> "UnknownCurrencyFormatError", names |-> kw.format_type]
    ELSE CurrencyWith(parse_pattern(locale.currency_formats[kw.format_type]),
                      number, currency, locale, kw)

\* compact_format.get(plural_form, compact_format.get('other', {}))
CompactPatterns(compact_format, form) ==
    IF form \in DOMAIN compact_format THEN compact_format[form]
    ELSE IF "other" \in DOMAIN compact_format THEN compact_format.other
    ELSE <<>>

\* the thresholds of the table that abs_number reaches, compared as ints
CompactReached(table, abs_number) ==
    {t \in DOMAIN table : DecGeInt(abs_number, DigitsValue(t))}

\* the first of the thresholds in the order sorted(..., key=int, reverse=True)
CompactFirst(thresholds) ==
    CHOOSE t \in thresholds : \A u \in thresholds : DigitsValue(u) <= DigitsValue(t)

\* the return of _get_compact_format at line 597, given the threshold and the
\* outcome of parse_pattern
CompactFound(threshold, parsed) ==
    IF parsed.kind # "ok" THEN parsed
    ELSE [kind |-> "ok", magnitude |-> Dec(0, DigitsValue(threshold), 0),
          pattern |-> Just(parsed.pattern)]

\* the loop of _get_compact_format (lines 592-599)
CompactSelect(table, reached) ==
    IF reached = {} THEN [kind |-> "ok", magnitude |-> Dec(0, 1, 0), pattern |-> Nothing]
    ELSE CompactFound(CompactFirst(reached), parse_pattern(table[CompactFirst(reached)]))

\* _get_compact_format(number, compact_format, locale, fraction_digits) for a
\* finite Decimal number: the pair returned; neither fraction_digits nor the
\* magnitude of line 587 is read
_get_compact_format(number, compact_format) ==
    CompactSelect(CompactPatterns(compact_format, plural_form(DecAbs(number))),
                  CompactReached(CompactPatterns(compact_format, plural_form(DecAbs(number))),
                                 DecAbs(number)))

\* the keyword arguments of format_compact_decimal and of
\* format_compact_currency, with their defaults
CompactDefaults == [format_type |-> "short", fraction_digits |-> 0, numbering_system |-> "latn"]

\* formatted.strip()
CompactStripped(formatted) ==
    IF formatted.kind # "ok" THEN formatted
    ELSE [kind |-> "ok", value |-> Strip(formatted.value)]

\* format_compact_decimal from line 564 on, given the selection
CompactDecimalWith(selected, number, locale, kw) ==
    IF selected.kind # "ok" THEN selected
    ELSE IF selected.pattern.none
    THEN format_decimal(number, locale,
                        [FormatDefaults EXCEPT !.numbering_system = kw.numbering_system])
    ELSE CompactStripped(
             apply(selected.pattern.v, DecDivide(number, selected.magnitude), locale,
                   [ApplyDefaults EXCEPT
                       !.force_frac = Just(<<kw.fraction_digits, kw.fraction_digits>>),
                       !.numbering_system = kw.numbering_system]))

\* format_compact_decimal(number, locale=locale, **kw) for a finite Decimal
format_compact_decimal(number, locale, kw) ==
    IF kw.format_type \notin DOMAIN locale.compact_decimal_formats
    THEN [kind |-> "ValueError"]
    ELSE CompactDecimalWith(
             _get_compact_format(number, locale.compact_decimal_formats[kw.format_type]),
             number, locale, kw)

\* format_compact_currency from line 748 on, given the selection
CompactCurrencyWith(selected, number, currency, locale, kw) ==
    IF selected.kind # "ok" THEN selected
    ELSE IF selected.pattern.none
    THEN format_currency(number, currency, locale,
                         [CurrencyDefaults EXCEPT !.numbering_system = kw.numbering_system])
    ELSE CompactStripped(
             apply(selected.pattern.v, DecDivide(number, selected.magnitude), locale,
                   [ApplyDefaults EXCEPT
                       !.currency = Just(currency),
                       !.force_frac = Just(<<kw.fraction_digits, kw.fraction_digits>>),
                       !.numbering_system = kw.numbering_system]))

\* format_compact_currency(number, currency, locale=locale, **kw) for a
\* finite Decimal
format_compact_currency(number, currency, locale, kw) ==
    IF kw.format_type \notin DOMAIN locale.compact_currency_formats
    THEN [kind |-> "ValueError"]
    ELSE CompactCurrencyWith(
             _get_compact_format(number, locale.compact_currency_formats[kw.format_type]),
             number, currency, locale, kw)

(* babel.units *)

\* raise UnknownUnitError(*args): the constructor takes a unit and a locale,
\* and a call with another number of arguments fails in the call itself
RaiseUnknownUnitError(args) ==
    IF Len(args) = 2 THEN [kind |-> "UnknownUnitError", names |-> args[1]]
    ELSE [kind |-> "TypeError"]

\* the categories of locale.unit_display_names that hold unit_id
UnitCategories(unit_id, locale) ==
    {c \in DOMAIN locale.unit_display_names : unit_id \in DOMAIN locale.unit_display_names[c]}

\* _find_unit_pattern(unit_id, locale): 'category-unit_id' for the category
\* that holds the unit, else None
_find_unit_pattern(unit_id, locale) ==
    IF UnitCategories(unit_id, locale) = {} THEN Nothing
    ELSE Just((CHOOSE c \in UnitCategories(unit_id, locale) : TRUE) \o <<45>> \o unit_id)

\* get_unit_name(measurement_unit, length, locale): the entry of the length
\* under the key measurement_unit of locale.unit_display_names, None without
\* such a length; the error of line 41 is raised with the message alone
get_unit_name(measurement_unit, length, locale) ==
    IF measurement_unit \notin DOMAIN locale.unit_display_names
    THEN RaiseUnknownUnitError(<<measurement_unit>>)
    ELSE IF length \in DOMAIN locale.unit_display_names[measurement_unit]
    THEN [kind |-> "ok", value |-> Just(locale.unit_display_names[measurement_unit][length])]
    ELSE [kind |-> "ok", value |-> Nothing]

\* the end of format_unit (lines 138-141), given the outcome of
\* format_decimal: the template of the plural form, '{0}' replaced by the
\* number
UnitFormatted(formatted, value, unit_pattern, length, locale) ==
    IF formatted.kind # "ok" THEN formatted
    ELSE IF \/ unit_pattern \notin DOMAIN locale.unit_display_names
            \/ length \notin DOMAIN locale.unit_display_names[unit_pattern]
            \/ plural_form(value) \notin DOMAIN locale.unit_display_names[unit_pattern][length]
    THEN [kind |-> "KeyError"]
    ELSE [kind |-> "ok",
          value |-> Replace(locale.unit_display_names[unit_pattern][length][plural_form(value)],
                            <<123, 48, 125>>, formatted.value)]

\* format_unit from line 129 on, given the outcome of get_unit_name
UnitNamed(unit_name, value, measurement_unit, unit_pattern, length, locale, numbering_system) ==
    IF unit_name.kind # "ok" THEN unit_name
    ELSE IF unit_name.value.none THEN RaiseUnknownUnitError(<<measurement_unit>>)
    ELSE UnitFormatted(format_decimal(value, locale,
                                      [FormatDefaults EXCEPT !.numbering_system = numbering_system]),
                       value, unit_pattern, length, locale)

\* format_unit from line 125 on, given the return of _find_unit_pattern; the
\* errors of lines 127 and 131 are raised with the message alone
UnitFound(unit_pattern, value, measurement_unit, length, locale, numbering_system) ==
    IF unit_pattern.none THEN RaiseUnknownUnitError(<<measurement_unit>>)
    ELSE UnitNamed(get_unit_name(unit_pattern.v, length, locale), value, measurement_unit,
                   unit_pattern.v, length, locale, numbering_system)

\* format_unit(value, measurement_unit, length, locale=locale,
\* numbering_system=numbering_system) for a Decimal value and no format
format_unit(value, measurement_unit, length, locale, numbering_system) ==
    UnitFound(_find_unit_pattern(measurement_unit, locale), value, measurement_unit, length,
              locale, numbering_system)

\* the end of the strict check of parse_decimal: the second suggestion is
\* formatted, and NumberFormatError(message) raised; the constructor is given
\* no suggestions, so the attribute suggestions of the exception is None
ParseSuggested(suggestion) ==
    IF suggestion.kind # "ok" THEN suggestion
    ELSE [kind |-> "NumberFormatError", suggestions |-> Nothing]

\* the strict check of parse_decimal (lines 974-983), given the string
\* format_decimal makes of the number parsed
ParseChecked(cleaned, parsed, formatted, locale, ns) ==
    IF formatted.kind # "ok" THEN formatted
    ELSE IF formatted.value = cleaned THEN parsed
    ELSE ParseSuggested(format_decimal(parsed.value, locale,
                            [FormatDefaults EXCEPT !.numbering_system = ns,
                                                   !.decimal_quantization = FALSE]))

\* parse_decimal from line 970 on, given the outcome of decimal.Decimal
ParseParsed(cleaned, parsed, locale, strict, ns) ==
    IF parsed.kind # "ok" THEN [kind |-> "NumberFormatError", suggestions |-> Nothing]
    ELSE IF ~strict THEN parsed
    ELSE ParseChecked(cleaned, parsed,
                      format_decimal(parsed.value, locale,
                                     [FormatDefaults EXCEPT !.numbering_system = ns]),
                      locale, ns)

\* parse_decimal from line 968 on, given the string without separators
ParseCleaned(cleaned, locale, strict, ns) ==
    ParseParsed(cleaned, DecFromStr(cleaned), locale, strict, ns)

\* parse_decimal from line 956 on, given the numbering system
ParseIn(string, locale, strict, ns) ==
    IF ~HasSymbols(locale, ns) THEN [kind |-> "UnsupportedNumberingSystemError"]
    ELSE ParseCleaned(Strip(Replace(Replace(string, locale.number_symbols[ns].group, <<>>),
                                    locale.number_symbols[ns].decimal, <<46>>)),
                      locale, strict, ns)

\* parse_decimal(string, locale, strict, numbering_system=numbering_system)
parse_decimal(string, locale, strict, numbering_system) ==
    ParseIn(string, locale, strict, NumberingSystem(locale, numbering_system))

-----------------------------------------------------------------------------
(* babel.messages.jslexer: the rules and tokenize                            *)
(* A position is an index from 0 as in Python; a regular expression is the   *)
(* length of its match at a position of a string, or -1 when it does not     *)
(* match there                                                               *)

\* source[pos], or -1 past the end
CharAt(s, pos) == IF pos < Len(s) THEN s[pos + 1] ELSE -1

\* how many characters from pos on are in the class
RunLen(s, pos, InClass(_)) ==
    IF \A k \in pos..(Len(s) - 1) : InClass(s[k + 1]) THEN Max(Len(s) - pos, 0)
    ELSE (CHOOSE k \in pos..(Len(s) - 1) :
              ~InClass(s[k + 1]) /\ \A j \in pos..(k - 1) : InClass(s[j + 1])) - pos

\* \d, and \w for the ASCII characters: letters, digits and the underscore
IsDigit(c) == c >= 48 /\ c <= 57

IsWord(c) == IsDigit(c) \/ (c >= 65 /\ c <= 90) \/ (c >= 97 /\ c <= 122) \/ c = 95

\* [\w$_] and [\w\d$_.]
IsNameChar(c) == IsWord(c) \/ c = 36

IsDottedChar(c) == IsNameChar(c) \/ c = 46

\* the operators (line 15): the alternatives of the operator rule, the longer
\* ones first
operators ==
    {<<43>>, <<45>>, <<42>>, <<37>>, <<33, 61>>, <<61, 61>>, <<60>>, <<62>>, <<60, 61>>,
     <<62, 61>>, <<61>>, <<43, 61>>, <<45, 61>>, <<42, 61>>, <<37, 61>>, <<60, 60>>,
     <<62, 62>>, <<62, 62, 62>>, <<60, 60, 61>>, <<62, 62, 61>>, <<62, 62, 62, 61>>,
     <<38>>, <<38, 61>>, <<124>>, <<124, 61>>, <<38, 38>>, <<124, 124>>, <<94>>,
     <<94, 61>>, <<40>>, <<41>>, <<91>>, <<93>>, <<123>>, <<125>>, <<33>>, <<45, 45>>,
     <<43, 43>>, <<126>>, <<44>>, <<59>>, <<46>>, <<58>>}

\* \s+
whitespace_re(s, pos) ==
    IF RunLen(s, pos, IsSpace) >= 1 THEN RunLen(s, pos, IsSpace) ELSE -1

\* the characters . matches without DOTALL: all but the line feed
NotLineFeed(c) == c # 10

\* <!--.*
html_comment_re(s, pos) ==
    IF Slice(s, pos, pos + 4) = <<60, 33, 45, 45>> THEN 4 + RunLen(s, pos + 4, NotLineFeed)
    ELSE -1

\* //.*
linecomment_re(s, pos) ==
    IF Slice(s, pos, pos + 2) = <<47, 47>> THEN 2 + RunLen(s, pos + 2, NotLineFeed)
    ELSE -1

\* /\*.*?\*/ with DOTALL: up to the first */ after the opening /*
multilinecomment_re(s, pos) ==
    IF Slice(s, pos, pos + 2) = <<47, 42>>
       /\ \E k \in (pos + 2)..(Len(s) - 2) : Slice(s, k, k + 2) = <<42, 47>>
    THEN (CHOOSE k \in (pos + 2)..(Len(s) - 2) :
              /\ Slice(s, k, k + 2) = <<42, 47>>
              /\ \A j \in (pos + 2)..(k - 1) : Slice(s, j, j + 2) # <<42, 47>>) + 2 - pos
    ELSE -1

\* dotted_name_re (line 18): [\w$_][\w\d$_.]*[\w\d$_.]
dotted_name_re(s, pos) ==
    IF IsNameChar(CharAt(s, pos)) /\ RunLen(s, pos + 1, IsDottedChar) >= 1
    THEN 1 + RunLen(s, pos + 1, IsDottedChar)
    ELSE -1

\* name_re (line 17): [\w$_][\w\d$_]*
name_re(s, pos) ==
    IF IsNameChar(CharAt(s, pos)) THEN 1 + RunLen(s, pos + 1, IsNameChar) ELSE -1

\* (?:0|[1-9]\d*)
NumberIntLen(s, pos) ==
    IF CharAt(s, pos) = 48 THEN 1
    ELSE IF IsDigit(CharAt(s, pos)) THEN RunLen(s, pos, IsDigit)
    ELSE -1

\* (\.\d+)? : the length matched, 0 when the group is skipped
NumberFracLen(s, pos) ==
    IF CharAt(s, pos) = 46 /\ RunLen(s, pos + 1, IsDigit) >= 1
    THEN 1 + RunLen(s, pos + 1, IsDigit)
    ELSE 0

\* ([eE][-+]?\d+)? : the length matched, 0 when the group is skipped
NumberExpLen(s, pos) ==
    IF CharAt(s, pos) \in {101, 69}
    THEN LET sign == IF CharAt(s, pos + 1) \in {45, 43} THEN 1 ELSE 0
         IN  IF RunLen(s, pos + 1 + sign, IsDigit) >= 1
             THEN 1 + sign + RunLen(s, pos + 1 + sign, IsDigit)
             ELSE 0
    ELSE 0

\* the number rule: the decimal alternative matches whenever a digit is at
\* pos, so the alternative 0x[a-fA-F0-9]+ after it is never tried with success
js_number_re(s, pos) ==
    IF NumberIntLen(s, pos) = -1 THEN -1
    ELSE NumberIntLen(s, pos)
         + NumberFracLen(s, pos + NumberIntLen(s, pos))
         + NumberExpLen(s, pos + NumberIntLen(s, pos)
                               + NumberFracLen(s, pos + NumberIntLen(s, pos)))

\* [^>\s]
IsTagChar(c) == c # 62 /\ ~IsSpace(c)

\* (?:</?[^>\s]+|/>) : a / after the < is matched by /? or, when nothing
\* follows it, by [^>\s]+
jsx_tag_re(s, pos) ==
    IF CharAt(s, pos) = 60 /\ RunLen(s, pos + 1, IsTagChar) >= 1
    THEN 1 + RunLen(s, pos + 1, IsTagChar)
    ELSE IF Slice(s, pos, pos + 2) = <<47, 62>> THEN 2
    ELSE -1

\* the operator rule: the longest operator found at pos
operator_re(s, pos) ==
    IF \E n \in 1..4 : Len(Slice(s, pos, pos + n)) = n /\ Slice(s, pos, pos + n) \in operators
    THEN CHOOSE n \in 1..4 :
             /\ Len(Slice(s, pos, pos + n)) = n /\ Slice(s, pos, pos + n) \in operators
             /\ \A m \in (n + 1)..4 :
                   ~(Len(Slice(s, pos, pos + m)) = m /\ Slice(s, pos, pos + m) \in operators)
    ELSE -1

RECURSIVE QuotedEnd(_, _, _, _)
\* the position after the closing quote of (?:[^q\\]*(?:\\.[^q\\]*)*)q
\* scanned from pos on, or -1; with dotall a backslash escapes a line feed too
QuotedEnd(s, pos, quote, dotall) ==
    IF pos >= Len(s) THEN -1
    ELSE IF CharAt(s, pos) = quote THEN pos + 1
    ELSE IF CharAt(s, pos) = 92
    THEN IF pos + 1 >= Len(s) \/ (~dotall /\ CharAt(s, pos + 1) = 10) THEN -1
         ELSE QuotedEnd(s, pos + 2, quote, dotall)
    ELSE QuotedEnd(s, pos + 1, quote, dotall)

\* the quoted text that opens at pos with the quote
QuotedLen(s, pos, quote, dotall) ==
    IF CharAt(s, pos) = quote /\ QuotedEnd(s, pos + 1, quote, dotall) # -1
    THEN QuotedEnd(s, pos + 1, quote, dotall) - pos
    ELSE -1

\* the template_string rule: `...`
template_string_re(s, pos) == QuotedLen(s, pos, 96, FALSE)

\* the string rule: '...' or "...", with DOTALL
string_re(s, pos) ==
    IF QuotedLen(s, pos, 39, TRUE) # -1 THEN QuotedLen(s, pos, 39, TRUE)
    ELSE QuotedLen(s, pos, 34, TRUE)

\* division_re (line 19): /=?
division_re(s, pos) ==
    IF CharAt(s, pos) # 47 THEN -1 ELSE IF CharAt(s, pos + 1) = 61 THEN 2 ELSE 1

\* _rules (line 30): the token type of each rule, None for the first two, and
\* its regular expression
_rules ==
    <<[type |-> "None", re |-> "whitespace"],
      [type |-> "None", re |-> "html_comment"],
      [type |-> "linecomment", re |-> "linecomment"],
      [type |-> "multilinecomment", re |-> "multilinecomment"],
      [type |-> "dotted_name", re |-> "dotted_name"],
      [type |-> "name", re |-> "name"],
      [type |-> "number", re |-> "number"],
      [type |-> "jsx_tag", re |-> "jsx_tag"],
      [type |-> "operator", re |-> "operator"],
      [type |-> "template_string", re |-> "template_string"],
      [type |-> "string", re |-> "string"]>>

\* get_rules(jsx, dotted, template_string)
get_rules(jsx, dotted, template_string) ==
    SelectSeq(_rules, LAMBDA rule :
        /\ (jsx \/ rule.type # "jsx_tag")
        /\ (dotted \/ rule.type # "dotted_name")
        /\ (template_string \/ rule.type # "template_string"))

\* a match of no character, whatever the rule and the position
EmptyMatch(rule, s, pos) == 0

\* rule.match(source, pos): the length of the match, or -1
RuleMatch(rule, s, pos) ==
    CASE rule.re = "whitespace" -> whitespace_re(s, pos)
      [] rule.re = "html_comment" -> html_comment_re(s, pos)
      [] rule.re = "linecomment" -> linecomment_re(s, pos)
      [] rule.re = "multilinecomment" -> multilinecomment_re(s, pos)
      [] rule.re = "dotted_name" -> dotted_name_re(s, pos)
      [] rule.re = "name" -> name_re(s, pos)
      [] rule.re = "number" -> js_number_re(s, pos)
      [] rule.re = "jsx_tag" -> jsx_tag_re(s, pos)
      [] rule.re = "operator" -> operator_re(s, pos)
      [] rule.re = "template_string" -> template_string_re(s, pos)
      [] rule.re = "string" -> string_re(s, pos)

\* the number in rules of the first rule that matches at pos, 0 when none does
FirstMatching(rules, s, pos) ==
    IF \A i \in 1..Len(rules) : RuleMatch(rules[i], s, pos) = -1 THEN 0
    ELSE CHOOSE i \in 1..Len(rules) :
             /\ RuleMatch(rules[i], s, pos) # -1
             /\ \A j \in 1..(i - 1) : RuleMatch(rules[j], s, pos) = -1

\* indicates_division(token)
indicates_division(token) ==
    \/ token.type \in {"number", "name"}
    \/ token.type = "operator"
       /\ token.value \in {<<41>>, <<93>>, <<125>>, <<43, 43>>, <<45, 45>>}

\* len(line_re.findall(value)): the line breaks \r\n, \n and \r of value
LineBreaks(value) ==
    Cardinality({i \in 1..Len(value) :
        value[i] = 10 \/ (value[i] = 13 /\ (i = Len(value) \/ value[i + 1] # 10))})

\* the value of the token of an operator match (lines 120-129): a match of
\* '/' after a token that indicates a division is widened to what division_re
\* matches, which it always does there, so regex_re is never consulted
OperatorValue(s, pos, value, last_token) ==
    IF value = <<47>> /\ last_token.type # "None" /\ indicates_division(last_token)
    THEN Slice(s, pos, pos + division_re(s, pos))
    ELSE value

\* the source tokenize works on (line 109)
Prepared(source) == Replace(Replace(source, <<13, 10>>, <<10>>), <<13>>, <<10>>) \o <<10>>

-----------------------------------------------------------------------------
(* The MO scenarios *)

\* ids, translations, flags and contexts of the messages added to the catalog:
\* "a", "b", "", ("a", "b") / "b", "", ("é", "a"), ("", "")
MoIds == {PyStr(<<97>>), PyStr(<<98>>), PyStr(<<>>), PyTuple(<<<<97>>, <<98>>>>)}

MoStrings == {PyStr(<<98>>), PyStr(<<>>), PyTuple(<<<<233>>, <<97>>>>),
              PyTuple(<<<<>>, <<>>>>)}

MoFlags == {{}, {L_fuzzy}}

MoContexts == {None, Some(<<107>>)}

NoOutcome == [kind |-> "none"]

\* last_token = None
NoToken == [type |-> "None"]

\* the variables of the tokenize scenarios while another subsystem is exercised
JsIdle ==
    /\ js_pc = "idle"
    /\ js_source = <<>>
    /\ js_rules = <<>>
    /\ js_pos = 0
    /\ js_lineno = 1
    /\ js_last = NoToken
    /\ js_tokens = <<>>
    /\ js_iter = 0

\* no MO file from elsewhere
NoFile == [order |-> "none"]

\* the variables of the MO scenarios while another subsystem is exercised
MoIdle ==
    /\ mo_pc = "idle"
    /\ catalog = EmptyCatalog
    /\ use_fuzzy = FALSE
    /\ native = "<"
    /\ mo_written = NoOutcome
    /\ mo_buf = <<>>
    /\ mo_src = "none"
    /\ mo_read = NoOutcome
    /\ mo_file = NoFile

\* the variables of the PO scenarios while another subsystem is exercised
PoIdle ==
    /\ po_pc = "idle"
    /\ po_catalog = EmptyCatalog
    /\ po_opts = PoDefaults
    /\ po_written = NoOutcome
    /\ po_blocks = <<>>
    /\ po_file = <<>>
    /\ po_abort = FALSE
    /\ po_read = NoOutcome

\* the variables of the normalize scenarios while another subsystem is exercised
NormIdle ==
    /\ n_pc = "idle"
    /\ n_string = <<>>
    /\ n_width = NoWidth
    /\ n_normalized = <<>>
    /\ n_result = <<>>
    /\ e_string = <<>>
    /\ e_escaped = <<>>
    /\ e_result = <<>>

\* the variables of the number scenarios while another subsystem is exercised
NumIdle ==
    /\ num_pc = "idle"
    /\ patterns = <<>>
    /\ num_born = <<>>
    /\ num_applies = 0
    /\ num_out = NoOutcome
    /\ num_value = Dec(0, 0, 0)
    /\ num_locale = "en_US"
    /\ num_kw = FormatDefaults
    /\ num_formatted = NoOutcome
    /\ num_input = <<>>
    /\ num_parsed = NoOutcome
    /\ num_call = [op |-> "none"]

MoInit ==
    /\ mo_pc = "build"
    /\ catalog = EmptyCatalog
    /\ use_fuzzy \in BOOLEAN
    /\ native \in {"<", ">"}
    /\ mo_written = NoOutcome
    /\ mo_buf = <<>>
    /\ mo_src = "none"
    /\ mo_read = NoOutcome
    /\ mo_file = NoFile
    /\ PoIdle /\ NormIdle /\ NumIdle /\ JsIdle

\* catalog.add(id, string, flags=flags, context=context)
MoAdd ==
    /\ mo_pc = "build"
    /\ Len(catalog.messages) < MaxMsgs
    /\ \E id \in MoIds, string \in MoStrings, flags \in MoFlags, context \in MoContexts :
          catalog' = CatalogAdd(catalog, id, string, flags, context)
    /\ UNCHANGED <<mo_pc, use_fuzzy, native, mo_written, mo_buf, mo_src, mo_read, mo_file>>
    /\ UNCHANGED <<po_vars, norm_vars, num_vars, js_vars>>

\* write_mo(fileobj, catalog, use_fuzzy): the file holds the bytes written, or
\* the call raises and nothing is written
WriteMo ==
    /\ mo_pc = "build"
    /\ mo_written' = write_mo(catalog, use_fuzzy, native)
    /\ IF mo_written'.kind = "ok"
       THEN mo_pc' = "written" /\ mo_buf' = mo_written'.buf /\ mo_src' = "write_mo"
       ELSE mo_pc' = "failed" /\ UNCHANGED <<mo_buf, mo_src>>
    /\ UNCHANGED <<catalog, use_fuzzy, native, mo_read, mo_file>>
    /\ UNCHANGED <<po_vars, norm_vars, num_vars, js_vars>>

\* an MO file from elsewhere is opened
LoadFile ==
    /\ mo_pc = "build"
    /\ catalog = EmptyCatalog
    /\ \E order \in {"<", ">"}, magic \in FileMagics, version \in FileVersions,
          entries \in SeqsUpTo(FileEntries, MaxEntries), extra \in 0..1 :
          /\ mo_buf' = MoFile(order, magic, version, U32(Len(entries) + extra), entries)
          /\ mo_file' = [order |-> order, magic |-> magic, version |-> version,
                         count |-> U32(Len(entries) + extra), entries |-> entries]
    /\ mo_pc' = "loaded"
    /\ mo_src' = "file"
    /\ UNCHANGED <<catalog, use_fuzzy, native, mo_written, mo_read>>
    /\ UNCHANGED <<po_vars, norm_vars, num_vars, js_vars>>

\* the file is a truncated copy: only its first n bytes are there
Truncate ==
    /\ mo_pc = "loaded"
    /\ \E n \in 0..(Len(mo_buf) - 1) : mo_buf' = SubSeq(mo_buf, 1, n)
    /\ mo_pc' = "cut"
    /\ UNCHANGED <<catalog, use_fuzzy, native, mo_written, mo_src, mo_read, mo_file>>
    /\ UNCHANGED <<po_vars, norm_vars, num_vars, js_vars>>

\* read_mo(fileobj)
ReadMo ==
    /\ mo_pc \in {"written", "loaded", "cut"}
    /\ mo_read' = read_mo(mo_buf)
    /\ mo_pc' = "read"
    /\ UNCHANGED <<catalog, use_fuzzy, native, mo_written, mo_buf, mo_src, mo_file>>
    /\ UNCHANGED <<po_vars, norm_vars, num_vars, js_vars>>

\* a catalog is built, written and read back
MoNext == MoAdd \/ WriteMo \/ ReadMo

SpecMo == MoInit /\ [][MoNext]_vars

\* an MO file, possibly truncated, is read
MoFileNext == LoadFile \/ Truncate \/ ReadMo

SpecMoFile == MoInit /\ [][MoFileNext]_vars

-----------------------------------------------------------------------------
(* The PO scenarios *)

\* ids and translations of the messages added: "a", "a b", ("a", "b") /
\* "b", "", "b\nc"
PoIds == {PyStr(<<97>>), PyStr(<<97, 32, 98>>), PyTuple(<<<<97>>, <<98>>>>)}

PoStrings == {PyStr(<<98>>), PyStr(<<>>), PyStr(<<98, 10, 99>>)}

\* a message without comments, flags or locations
PoPlain ==
    [locations |-> <<>>, flags |-> {}, auto_comments |-> <<>>, user_comments |-> <<>>,
     previous_id |-> PyTuple(<<>>)]

\* what else a message added carries: nothing; or the location f:3, the flags
\* fuzzy and c, the auto comment "x", the user comments "y" and "", the
\* previous id "p"; or the locations e (no line) and f:0
PoAnnotations ==
    {PoPlain,
     [locations |-> <<<<<<102>>, Line(3)>>>>, flags |-> {L_fuzzy, <<99>>},
      auto_comments |-> <<<<120>>>>, user_comments |-> <<<<121>>, <<>>>>,
      previous_id |-> PyTuple(<<<<112>>>>)],
     [locations |-> <<<<<<101>>, NoLine>>, <<<<102>>, Line(0)>>>>, flags |-> {},
      auto_comments |-> <<>>, user_comments |-> <<>>, previous_id |-> PyTuple(<<>>)]}

\* the keyword arguments write_po is called with: the defaults, or one of them
\* changed
PoOptions ==
    {PoDefaults,
     [PoDefaults EXCEPT !.width = NoWidth],
     [PoDefaults EXCEPT !.width = Width(PoNarrow)],
     [PoDefaults EXCEPT !.no_location = TRUE],
     [PoDefaults EXCEPT !.omit_header = TRUE],
     [PoDefaults EXCEPT !.sort_output = TRUE],
     [PoDefaults EXCEPT !.sort_by_file = TRUE],
     [PoDefaults EXCEPT !.ignore_obsolete = TRUE],
     [PoDefaults EXCEPT !.include_previous = TRUE],
     [PoDefaults EXCEPT !.include_lineno = FALSE]}

\* msgid "a"\nmsgstr "b"\n\n: a message "a" translated "b", and the blank line that ends it
PoBlockAB ==
    [text |-> <<109, 115, 103, 105, 100, 32, 34, 97, 34, 10, 109, 115, 103, 115, 116, 114, 32, 34, 98, 34, 10, 10>>,
     messages |-> <<<<<<97>>, <<98>>>>>>, invalid |-> 0, lines |-> 3]

\* msgid "b"\nmsgstr "a"\n\n: a message "b" translated "a"
PoBlockBA ==
    [text |-> <<109, 115, 103, 105, 100, 32, 34, 98, 34, 10, 109, 115, 103, 115, 116, 114, 32, 34, 97, 34, 10, 10>>,
     messages |-> <<<<<<98>>, <<97>>>>>>, invalid |-> 0, lines |-> 3]

\* junk\n\n: a line that is no directive, comment or string
PoBlockJunk ==
    [text |-> <<106, 117, 110, 107, 10, 10>>,
     messages |-> <<>>, invalid |-> 1, lines |-> 2]

\* "x"\n\n: a continuation string that follows no directive
PoBlockOrphan ==
    [text |-> <<34, 120, 34, 10, 10>>,
     messages |-> <<>>, invalid |-> 1, lines |-> 2]

\* the blocks of the PO files read: their text, the (id, string) pairs of the
\* messages in them, the number in the block of its structurally invalid line
\* (0: none), and the number of its lines
PoBlocks == {PoBlockAB, PoBlockBA, PoBlockJunk, PoBlockOrphan}

PoInit ==
    /\ po_pc = "build"
    /\ po_catalog = EmptyCatalog
    /\ po_opts = PoDefaults
    /\ po_written = NoOutcome
    /\ po_blocks = <<>>
    /\ po_file = <<>>
    /\ po_abort = FALSE
    /\ po_read = NoOutcome
    /\ MoIdle /\ NormIdle /\ NumIdle /\ JsIdle

\* catalog.header_comment = "x\ny"; catalog.mime_headers = [("k", "v")]
PoSetHeader ==
    /\ po_pc = "build"
    /\ po_catalog = EmptyCatalog
    /\ po_catalog' = [po_catalog EXCEPT !.header_comment = <<120, 10, 121>>,
                                        !.mime_headers = <<<<<<107>>, <<118>>>>>>]
    /\ UNCHANGED <<po_pc, po_opts, po_written, po_blocks, po_file, po_abort, po_read>>
    /\ UNCHANGED <<mo_vars, norm_vars, num_vars, js_vars>>

\* catalog[id] = Message(id, string, ...)
PoAdd ==
    /\ po_pc = "build"
    /\ Len(po_catalog.messages) < MaxMsgs
    /\ \E id \in PoIds, string \in PoStrings, a \in PoAnnotations :
          po_catalog' = CatalogSet(po_catalog,
              PoMessage(id, string, a.locations, a.flags, a.auto_comments,
                        a.user_comments, a.previous_id, None))
    /\ UNCHANGED <<po_pc, po_opts, po_written, po_blocks, po_file, po_abort, po_read>>
    /\ UNCHANGED <<mo_vars, norm_vars, num_vars, js_vars>>

\* catalog.obsolete[id] = Message(id, string)
PoAddObsolete ==
    /\ po_pc = "build"
    /\ Len(po_catalog.obsolete) < MaxObsolete
    /\ \E string \in PoStrings :
          po_catalog' = [po_catalog EXCEPT !.obsolete =
              Append(@, Message(PyStr(<<111>> \o IntToStr(Len(@))), string, {}, None))]
    /\ UNCHANGED <<po_pc, po_opts, po_written, po_blocks, po_file, po_abort, po_read>>
    /\ UNCHANGED <<mo_vars, norm_vars, num_vars, js_vars>>

\* write_po(fileobj, catalog, **o): the file holds what was written, up to the
\* exception if the call raises
WritePo ==
    /\ po_pc = "build"
    /\ \E o \in PoOptions :
          /\ po_opts' = o
          /\ po_written' = write_po(po_catalog, o)
    /\ po_file' = po_written'.out
    /\ po_pc' = IF po_written'.kind = "ok" THEN "written" ELSE "failed"
    /\ UNCHANGED <<po_catalog, po_blocks, po_abort, po_read>>
    /\ UNCHANGED <<mo_vars, norm_vars, num_vars, js_vars>>

\* a PO file from elsewhere is opened
LoadPo ==
    /\ po_pc = "build"
    /\ po_catalog = EmptyCatalog
    /\ \E blocks \in SeqsUpTo(PoBlocks, MaxBlocks) :
          /\ po_blocks' = blocks
          /\ po_file' = Utf8Encode(Concat([i \in 1..Len(blocks) |-> blocks[i].text]))
    /\ po_pc' = "loaded"
    /\ UNCHANGED <<po_catalog, po_opts, po_written, po_abort, po_read>>
    /\ UNCHANGED <<mo_vars, norm_vars, num_vars, js_vars>>

\* read_po(fileobj, abort_invalid=abort_invalid)
ReadPo ==
    /\ po_pc \in {"written", "loaded"}
    /\ \E abort_invalid \in BOOLEAN :
          /\ po_abort' = abort_invalid
          /\ po_read' = read_po(po_file, FALSE, abort_invalid)
    /\ po_pc' = "read"
    /\ UNCHANGED <<po_catalog, po_opts, po_written, po_blocks, po_file>>
    /\ UNCHANGED <<mo_vars, norm_vars, num_vars, js_vars>>

PoNext == PoSetHeader \/ PoAdd \/ PoAddObsolete \/ WritePo \/ LoadPo \/ ReadPo

SpecPo == PoInit /\ [][PoNext]_vars

-----------------------------------------------------------------------------
(* The normalize / denormalize scenarios *)

\* the characters of the strings normalized: a, space, \n, \ and "
NormAlphabet == {97, 32, 10, 92, 34}

\* the widths: None, 0, -1, a width that forces wrapping, the default
NormWidths == {NoWidth, Width(0), Width(-1), Width(PoNarrow), Width(76)}

NormInit ==
    /\ n_pc = "start"
    /\ n_string \in SeqsUpTo(NormAlphabet, MaxStrLen)
    /\ n_width \in NormWidths
    /\ n_normalized = <<>>
    /\ n_result = <<>>
    /\ e_string = <<>>
    /\ e_escaped = <<>>
    /\ e_result = <<>>
    /\ MoIdle /\ PoIdle /\ NumIdle /\ JsIdle

\* normalize(n_string, width=n_width)
Normalize ==
    /\ n_pc = "start"
    /\ n_normalized' = normalize(n_string, <<>>, n_width)
    /\ n_pc' = "normalized"
    /\ UNCHANGED <<n_string, n_width, n_result, e_string, e_escaped, e_result>>
    /\ UNCHANGED <<mo_vars, po_vars, num_vars, js_vars>>

\* denormalize(n_normalized)
Denormalize ==
    /\ n_pc = "normalized"
    /\ n_result' = denormalize(n_normalized)
    /\ n_pc' = "denormalized"
    /\ UNCHANGED <<n_string, n_width, n_normalized, e_string, e_escaped, e_result>>
    /\ UNCHANGED <<mo_vars, po_vars, num_vars, js_vars>>

\* the strings escaped: the string, or the string with a tab or a carriage
\* return in place of every 'a'
EscapeInputs(string) ==
    {string,
     [i \in 1..Len(string) |-> IF string[i] = 97 THEN 9 ELSE string[i]],
     [i \in 1..Len(string) |-> IF string[i] = 97 THEN 13 ELSE string[i]]}

\* escape(string)
Escape ==
    /\ n_pc = "start"
    /\ \E string \in EscapeInputs(n_string) :
          /\ e_string' = string
          /\ e_escaped' = escape(string)
    /\ n_pc' = "escaped"
    /\ UNCHANGED <<n_string, n_width, n_normalized, n_result, e_result>>
    /\ UNCHANGED <<mo_vars, po_vars, num_vars, js_vars>>

\* unescape(e_escaped)
Unescape ==
    /\ n_pc = "escaped"
    /\ e_result' = unescape(e_escaped)
    /\ n_pc' = "unescaped"
    /\ UNCHANGED <<n_string, n_width, n_normalized, n_result, e_string, e_escaped>>
    /\ UNCHANGED <<mo_vars, po_vars, num_vars, js_vars>>

NormNext == Normalize \/ Denormalize \/ Escape \/ Unescape

SpecNorm == NormInit /\ [][NormNext]_vars

-----------------------------------------------------------------------------
(* The number scenarios *)

\* '#,##0.###', '0.00', '#,##0%', '#,##0.00;(#)', '0.#E0', '#', 'a;b;c',
\* '#,##,##0.###'
PatternStrings ==
    {<<35, 44, 35, 35, 48, 46, 35, 35, 35>>,
     <<48, 46, 48, 48>>,
     <<35, 44, 35, 35, 48, 37>>,
     <<35, 44, 35, 35, 48, 46, 48, 48, 59, 40, 35, 41>>,
     <<48, 46, 35, 69, 48>>,
     <<35>>,
     <<97, 59, 98, 59, 99>>,
     <<35, 44, 35, 35, 44, 35, 35, 48, 46, 35, 35, 35>>}

\* 1234.5, 0.125, 2.5, -0.001, 0, 1E+2, NaN, Infinity, 1234567, 12345.5, 1.2345,
\* 1.2355, 1.2346, 1099.98, 0.34
NumValues ==
    {Dec(0, 12345, -1), Dec(0, 125, -3), Dec(0, 25, -1), Dec(1, 1, -3), Dec(0, 0, 0),
     Dec(0, 1, 2), DecNaN, DecInfinity(0), Dec(0, 1234567, 0), Dec(0, 123455, -1),
     Dec(0, 12345, -4), Dec(0, 12355, -4), Dec(0, 12346, -4), Dec(0, 109998, -2),
     Dec(0, 34, -2)}

LocaleNames == {"en_US", "de"}

\* Locale.parse(name)
LocaleOf(name) == IF name = "en_US" THEN LocaleEnUS ELSE LocaleDe

\* the keyword arguments apply is called with: the defaults, or one changed,
\* or a currency with one more
ApplyOptions ==
    {ApplyDefaults,
     [ApplyDefaults EXCEPT !.decimal_quantization = FALSE],
     [ApplyDefaults EXCEPT !.group_separator = FALSE],
     [ApplyDefaults EXCEPT !.numbering_system = "arab"],
     [ApplyDefaults EXCEPT !.force_frac = Just(<<0, 1>>)],
     [ApplyDefaults EXCEPT !.currency = Just(<<74, 80, 89>>)],
     [ApplyDefaults EXCEPT !.currency = Just(<<74, 80, 89>>), !.currency_digits = FALSE],
     [ApplyDefaults EXCEPT !.currency = Just(<<74, 80, 89>>),
                           !.force_frac = Just(<<0, 1>>)]}

\* the keyword arguments format_decimal is called with: the defaults, or the
\* format '0.00', or no quantization
FormatOptions ==
    {FormatDefaults,
     [FormatDefaults EXCEPT !.format = Just(<<48, 46, 48, 48>>)],
     [FormatDefaults EXCEPT !.decimal_quantization = FALSE]}

\* the strings parse_decimal is given: '1,234.5', '1.234,5', ' 12 ', '-0.50',
\* '1.2.3', '', '1.099,98', '30.00', '0.00'
NumInputs ==
    {<<49, 44, 50, 51, 52, 46, 53>>, <<49, 46, 50, 51, 52, 44, 53>>, <<32, 49, 50, 32>>,
     <<45, 48, 46, 53, 48>>, <<49, 46, 50, 46, 51>>, <<>>,
     <<49, 46, 48, 57, 57, 44, 57, 56>>, <<51, 48, 46, 48, 48>>, <<48, 46, 48, 48>>}

\* the amounts format_currency is given: 1099.98, 1099.9876, -1099.98, 1
CurrencyValues ==
    {Dec(0, 109998, -2), Dec(0, 10999876, -4), Dec(1, 109998, -2), Dec(0, 1, 0)}

\* the currency codes format_currency is given: three of the currency data,
\* and 'XYZ', a code the data does not hold
CurrencyCodes == {USD, JPY, EUR, <<88, 89, 90>>}

\* the keyword arguments format_currency is called with: the defaults, or one
\* changed; the format given is the code form of the currency sign, a space
\* and '#,##0.00'
CurrencyOptions ==
    {CurrencyDefaults,
     [CurrencyDefaults EXCEPT !.currency_digits = FALSE],
     [CurrencyDefaults EXCEPT !.decimal_quantization = FALSE],
     [CurrencyDefaults EXCEPT !.group_separator = FALSE],
     [CurrencyDefaults EXCEPT !.format_type = "accounting"],
     [CurrencyDefaults EXCEPT !.format_type = "name"],
     [CurrencyDefaults EXCEPT !.format_type = "bogus"],
     [CurrencyDefaults EXCEPT !.format = Just(<<164, 164, 32, 35, 44, 35, 35, 48, 46, 48, 48>>)]}

\* the numbers the compact formatters are given: 12345, 999, 1000, 1, 0,
\* 1234567, -12345, 10000, 99999, 15500, 999.99
CompactValues ==
    {Dec(0, 12345, 0), Dec(0, 999, 0), Dec(0, 1000, 0), Dec(0, 1, 0), Dec(0, 0, 0),
     Dec(0, 1234567, 0), Dec(1, 12345, 0), Dec(0, 10000, 0), Dec(0, 99999, 0),
     Dec(0, 15500, 0), Dec(0, 99999, -2)}

\* the keyword arguments the compact formatters are called with: the
\* defaults, or two fraction digits, or a format type no locale has
CompactOptions ==
    {CompactDefaults,
     [CompactDefaults EXCEPT !.fraction_digits = 2],
     [CompactDefaults EXCEPT !.format_type = "medium"]}

\* the values format_unit is given: 1, 2.5, 1234.5
UnitValues == {Dec(0, 1, 0), Dec(0, 25, -1), Dec(0, 12345, -1)}

\* the unit codes format_unit is given: 'meter', and 'horse', a unit no
\* locale has
UnitCodes == {<<109, 101, 116, 101, 114>>, <<104, 111, 114, 115, 101>>}

\* the lengths format_unit is given
UnitLengths == {"long", "short", "narrow"}

NumInit ==
    /\ num_pc = "start"
    /\ patterns = <<>>
    /\ num_born = <<>>
    /\ num_applies = 0
    /\ num_out = NoOutcome
    /\ num_value = Dec(0, 0, 0)
    /\ num_locale = "en_US"
    /\ num_kw = FormatDefaults
    /\ num_formatted = NoOutcome
    /\ num_input = <<>>
    /\ num_parsed = NoOutcome
    /\ num_call = [op |-> "none"]
    /\ MoIdle /\ PoIdle /\ NormIdle /\ JsIdle

\* parse_pattern(p): a new NumberPattern, unless the call raises
ParsePattern ==
    /\ num_pc \in {"start", "patterns"}
    /\ Len(patterns) < MaxPatterns
    /\ \E p \in PatternStrings :
          LET made == parse_pattern(p)
          IN  /\ num_out' = [kind |-> made.kind, call |-> "parse_pattern"]
              /\ num_call' = [op |-> "parse_pattern", pattern |-> p]
              /\ IF made.kind = "ok"
                 THEN /\ patterns' = Append(patterns, made.pattern)
                      /\ num_born' = Append(num_born, num_applies)
                 ELSE UNCHANGED <<patterns, num_born>>
    /\ num_pc' = "patterns"
    /\ UNCHANGED <<num_applies, num_value, num_locale, num_kw, num_formatted, num_input,
                   num_parsed>>
    /\ UNCHANGED <<mo_vars, po_vars, norm_vars, js_vars>>

\* patterns[i].apply(value, locale, **kw)
Apply ==
    /\ num_pc = "patterns"
    /\ num_applies < MaxApplies
    /\ \E i \in 1..Len(patterns), value \in NumValues, name \in LocaleNames,
          kw \in ApplyOptions :
          /\ num_out' = apply(patterns[i], value, LocaleOf(name), kw)
          /\ num_call' = [op |-> "apply", self |-> patterns[i], value |-> value,
                          locale |-> name, kw |-> kw]
          /\ patterns' = [patterns EXCEPT ![i] = apply_self(@)]
    /\ num_applies' = num_applies + 1
    /\ UNCHANGED <<num_pc, num_born, num_value, num_locale, num_kw, num_formatted,
                   num_input, num_parsed>>
    /\ UNCHANGED <<mo_vars, po_vars, norm_vars, js_vars>>

\* format_decimal(value, locale=name, **kw)
FormatDecimal ==
    /\ num_pc = "start"
    /\ \E value \in NumValues, name \in LocaleNames, kw \in FormatOptions :
          /\ num_value' = value
          /\ num_locale' = name
          /\ num_kw' = kw
          /\ num_formatted' = format_decimal(value, LocaleOf(name), kw)
          /\ num_call' = [op |-> "format_decimal", number |-> value, locale |-> name,
                          kw |-> kw]
    /\ num_pc' = "formatted"
    /\ UNCHANGED <<patterns, num_born, num_applies, num_out, num_input, num_parsed>>
    /\ UNCHANGED <<mo_vars, po_vars, norm_vars, js_vars>>

\* parse_decimal(string, locale=name, strict=strict), of a string from
\* elsewhere or of the string format_decimal returned
ParseDecimal ==
    /\ \/ num_pc = "start"
       \/ num_pc = "formatted" /\ num_formatted.kind = "ok"
    /\ \E string \in (IF num_pc = "start" THEN NumInputs ELSE {num_formatted.value}),
          name \in (IF num_pc = "start" THEN LocaleNames ELSE {num_locale}),
          strict \in BOOLEAN :
          /\ num_input' = string
          /\ num_locale' = name
          /\ num_parsed' = parse_decimal(string, LocaleOf(name), strict, "latn")
          /\ num_call' = [op |-> "parse_decimal", string |-> string, locale |-> name,
                          strict |-> strict]
    /\ num_pc' = "parsed"
    /\ UNCHANGED <<patterns, num_born, num_applies, num_out, num_value, num_kw,
                   num_formatted>>
    /\ UNCHANGED <<mo_vars, po_vars, norm_vars, js_vars>>

\* format_currency(number, currency, locale=name, **kw)
FormatCurrency ==
    /\ num_pc = "start"
    /\ \E number \in CurrencyValues, currency \in CurrencyCodes, name \in LocaleNames,
          kw \in CurrencyOptions :
          /\ num_out' = format_currency(number, currency, LocaleOf(name), kw)
          /\ num_call' = [op |-> "format_currency", number |-> number,
                          currency |-> currency, locale |-> name, kw |-> kw]
    /\ num_pc' = "done"
    /\ UNCHANGED <<patterns, num_born, num_applies, num_value, num_locale, num_kw,
                   num_formatted, num_input, num_parsed>>
    /\ UNCHANGED <<mo_vars, po_vars, norm_vars, js_vars>>

\* format_compact_decimal(number, locale=name, **kw)
FormatCompactDecimal ==
    /\ num_pc = "start"
    /\ \E number \in CompactValues, name \in LocaleNames, kw \in CompactOptions :
          /\ num_out' = format_compact_decimal(number, LocaleOf(name), kw)
          /\ num_call' = [op |-> "format_compact_decimal", number |-> number,
                          locale |-> name, kw |-> kw]
    /\ num_pc' = "done"
    /\ UNCHANGED <<patterns, num_born, num_applies, num_value, num_locale, num_kw,
                   num_formatted, num_input, num_parsed>>
    /\ UNCHANGED <<mo_vars, po_vars, norm_vars, js_vars>>

\* format_compact_currency(number, currency, locale=name, **kw)
FormatCompactCurrency ==
    /\ num_pc = "start"
    /\ \E number \in CompactValues, currency \in CurrencyCodes, name \in LocaleNames,
          kw \in CompactOptions :
          /\ num_out' = format_compact_currency(number, currency, LocaleOf(name), kw)
          /\ num_call' = [op |-> "format_compact_currency", number |-> number,
                          currency |-> currency, locale |-> name, kw |-> kw]
    /\ num_pc' = "done"
    /\ UNCHANGED <<patterns, num_born, num_applies, num_value, num_locale, num_kw,
                   num_formatted, num_input, num_parsed>>
    /\ UNCHANGED <<mo_vars, po_vars, norm_vars, js_vars>>

\* format_unit(value, measurement_unit, length, locale=name)
FormatUnit ==
    /\ num_pc = "start"
    /\ \E value \in UnitValues, measurement_unit \in UnitCodes, length \in UnitLengths,
          name \in LocaleNames :
          /\ num_out' = format_unit(value, measurement_unit, length, LocaleOf(name), "latn")
          /\ num_call' = [op |-> "format_unit", value |-> value,
                          measurement_unit |-> measurement_unit, length |-> length,
                          locale |-> name]
    /\ num_pc' = "done"
    /\ UNCHANGED <<patterns, num_born, num_applies, num_value, num_locale, num_kw,
                   num_formatted, num_input, num_parsed>>
    /\ UNCHANGED <<mo_vars, po_vars, norm_vars, js_vars>>

NumNext ==
    \/ ParsePattern \/ Apply \/ FormatDecimal \/ ParseDecimal
    \/ FormatCurrency \/ FormatCompactDecimal \/ FormatCompactCurrency \/ FormatUnit

SpecNum == NumInit /\ [][NumNext]_vars

-----------------------------------------------------------------------------
(* The tokenize scenarios *)

\* the characters of the sources: a . space / * " \ < # and a carriage return
JsAlphabet == {97, 46, 32, 47, 42, 34, 92, 60, 35, 13}

\* longer sources: '/* a */', '<!--a', 'a.b = 1.5e3', '`a`b', "x++ / 2",
\* '</a>', "'a\'b'", '0x1F', 'a\r\n/=', '>>>= 1'
JsSamples ==
    {<<47, 42, 32, 97, 32, 42, 47>>,
     <<60, 33, 45, 45, 97>>,
     <<97, 46, 98, 32, 61, 32, 49, 46, 53, 101, 51>>,
     <<96, 97, 96, 98>>,
     <<120, 43, 43, 32, 47, 32, 50>>,
     <<60, 47, 97, 62>>,
     <<39, 97, 92, 39, 98, 39>>,
     <<48, 120, 49, 70>>,
     <<97, 13, 10, 47, 61>>,
     <<62, 62, 62, 61, 32, 49>>}

\* the sources tokenized
JsSources == SeqsUpTo(JsAlphabet, MaxJsLen) \cup JsSamples

JsInit ==
    /\ js_pc = "start"
    /\ js_source = <<>>
    /\ js_rules = <<>>
    /\ js_pos = 0
    /\ js_lineno = 1
    /\ js_last = NoToken
    /\ js_tokens = <<>>
    /\ js_iter = 0
    /\ MoIdle /\ PoIdle /\ NormIdle /\ NumIdle

\* tokenize(source, jsx, dotted, template_string) up to its while loop
\* (lines 108-112)
Tokenize ==
    /\ js_pc = "start"
    /\ \E source \in JsSources, jsx \in BOOLEAN, dotted \in BOOLEAN,
          template_string \in BOOLEAN :
          /\ js_rules' = get_rules(jsx, dotted, template_string)
          /\ js_source' = Prepared(source)
    /\ js_pos' = 0
    /\ js_pc' = "loop"
    /\ UNCHANGED <<js_lineno, js_last, js_tokens, js_iter>>
    /\ UNCHANGED <<mo_vars, po_vars, norm_vars, num_vars>>

\* the token of a match of n characters of the rule (lines 120-131)
TokenOf(rule, n) ==
    [type |-> rule.type,
     value |-> IF rule.type = "operator"
               THEN OperatorValue(js_source, js_pos, Slice(js_source, js_pos, js_pos + n),
                                  js_last)
               ELSE Slice(js_source, js_pos, js_pos + n),
     lineno |-> js_lineno]

\* the body of the for loop for the first rule that matches, its match being
\* of n characters (lines 118-137)
Matched(rule, n) ==
    /\ IF rule.type # "None"
       THEN /\ js_tokens' = Append(js_tokens, TokenOf(rule, n))
            /\ js_last' = TokenOf(rule, n)
       ELSE UNCHANGED <<js_tokens, js_last>>
    /\ js_lineno' = js_lineno + LineBreaks(Slice(js_source, js_pos, js_pos + n))
    /\ js_pos' = js_pos + n
    /\ js_iter' = js_iter + 1
    /\ UNCHANGED js_pc

\* one iteration of the while loop (lines 114-139): the first rule that
\* matches at pos is applied, or SyntaxError is raised when none does
Iterate ==
    /\ js_pc = "loop"
    /\ js_pos < Len(js_source)
    /\ IF FirstMatching(js_rules, js_source, js_pos) = 0
       THEN /\ js_pc' = "SyntaxError"
            /\ UNCHANGED <<js_pos, js_lineno, js_last, js_tokens, js_iter>>
       ELSE Matched(js_rules[FirstMatching(js_rules, js_source, js_pos)],
                    RuleMatch(js_rules[FirstMatching(js_rules, js_source, js_pos)],
                              js_source, js_pos))
    /\ UNCHANGED <<js_source, js_rules>>
    /\ UNCHANGED <<mo_vars, po_vars, norm_vars, num_vars>>

\* pos has reached end: the loop and the generator end
Exhausted ==
    /\ js_pc = "loop"
    /\ js_pos >= Len(js_source)
    /\ js_pc' = "done"
    /\ UNCHANGED <<js_source, js_rules, js_pos, js_lineno, js_last, js_tokens, js_iter>>
    /\ UNCHANGED <<mo_vars, po_vars, norm_vars, num_vars>>

JsNext == Tokenize \/ Iterate \/ Exhausted

SpecJs == JsInit /\ [][JsNext]_vars

-----------------------------------------------------------------------------
(* Claims about the MO codec *)

\* the messages of the catalog the writer is to include: a non-empty id, a
\* translation that is not empty (for a tuple: not all of its strings empty),
\* and not fuzzy unless use_fuzzy
Translated(m) == Truthy(m.string) /\ \E i \in 1..Len(m.string.v) : m.string.v[i] # <<>>

ToBeWritten(m) == Truthy(m.id) /\ Translated(m) /\ (use_fuzzy \/ ~Fuzzy(m))

\* message m is in the catalog read back, with the same id and string
ReadBack(m) ==
    \E j \in 1..Len(mo_read.catalog.messages) :
        /\ mo_read.catalog.messages[j].id = m.id
        /\ mo_read.catalog.messages[j].string = m.string

\* C1: write_mo followed by read_mo returns, for every message write_mo
\* includes, the same (id, string) pair, plural messages included.
C1_MoRoundTrip ==
    (mo_pc = "read" /\ mo_src = "write_mo") =>
        /\ mo_read.kind = "ok"
        /\ \A i \in 1..Len(catalog.messages) :
              ~MoSkipped(catalog.messages[i], use_fuzzy) => ReadBack(catalog.messages[i])

\* the magic number and the version field of a buffer that has them
BufMagic(buf) == UnpackI("<", Slice(buf, 0, 4))

BufOrder(buf) == IF BufMagic(buf) = LE_MAGIC THEN "<" ELSE ">"

BufVersion(buf) == UnpackI(BufOrder(buf), Slice(buf, 4, 8))

\* C4: read_mo on a buffer whose magic number is neither magic constant, or
\* whose version field is neither 0 nor 1, fails with an I/O error (and so
\* returns no catalog, partial or not).
C4_RejectsMagicAndVersion ==
    mo_pc = "read" =>
        /\ (Len(mo_buf) >= 4 /\ BufMagic(mo_buf) \notin {LE_MAGIC, BE_MAGIC})
              => mo_read.kind = "IOError"
        /\ (/\ Len(mo_buf) >= 8
            /\ BufMagic(mo_buf) \in {LE_MAGIC, BE_MAGIC}
            /\ BufVersion(mo_buf) \notin {U32(0), U32(1)})
              => mo_read.kind = "IOError"

\* the first index entries of a buffer whose header and tables are there:
\* (length, offset) of the first key and of the first value
BufFields(buf) == MoFields(BufOrder(buf), Slice(buf, 4, 20))

BufFirstEntry(buf, table) ==
    LET raw == SliceU(buf, table, AddU(table, U32(8)))
    IN  [len |-> UnpackI(BufOrder(buf), SubSeq(raw, 1, 4)),
         off |-> UnpackI(BufOrder(buf), SubSeq(raw, 5, 8))]

\* the buffer is well-formed up to its first index entries, and one of them
\* points past the end of the buffer
FirstEntryOverruns(buf) ==
    /\ Len(buf) >= 20
    /\ BufMagic(buf) \in {LE_MAGIC, BE_MAGIC}
    /\ BufVersion(buf) \in {U32(0), U32(1)}
    /\ GtU(BufFields(buf)[2], 0)
    /\ Len(SliceU(buf, BufFields(buf)[3], AddU(BufFields(buf)[3], U32(8)))) = 8
    /\ Len(SliceU(buf, BufFields(buf)[4], AddU(BufFields(buf)[4], U32(8)))) = 8
    /\ LET k == BufFirstEntry(buf, BufFields(buf)[3])
           v == BufFirstEntry(buf, BufFields(buf)[4])
       IN  GtU(AddU(k.off, k.len), Len(buf)) \/ GtU(AddU(v.off, v.len), Len(buf))

\* C5: on every buffer, truncated ones included, read_mo returns a catalog or
\* fails with an I/O error, and with no other kind of failure; it fails with an
\* I/O error when an index entry's offset + length exceeds the buffer.
C5_OnlyIOErrors ==
    mo_pc = "read" =>
        /\ mo_read.kind \in {"ok", "IOError"}
        /\ FirstEntryOverruns(mo_buf) => mo_read.kind = "IOError"

\* the message count in the header of the bytes written
WrittenCount == UnpackI(native, Slice(mo_written.buf, 8, 12))

\* C6: write_mo writes the messages with a non-empty id and a non-empty
\* translation that are not fuzzy (or are, with use_fuzzy), and the header's
\* message count is their number; a plural message whose translations are all
\* empty is not written.
C6_WritesTranslatedMessages ==
    mo_pc \in {"written", "failed"} =>
        /\ mo_written.kind = "ok"
        /\ WrittenCount =
              U32(Cardinality({i \in 1..Len(catalog.messages) : ToBeWritten(catalog.messages[i])}))

-----------------------------------------------------------------------------
(* Claims about the PO codec *)

\* the catalog's messages carry no comments, flags or locations
PlainCatalog(cat) ==
    \A i \in 1..Len(cat.messages) :
        /\ cat.messages[i].locations = <<>>
        /\ cat.messages[i].flags = {}
        /\ cat.messages[i].auto_comments = <<>>
        /\ cat.messages[i].user_comments = <<>>
        /\ ~Truthy(cat.messages[i].previous_id)

\* the catalog read_po returned holds a message with this id and string
PoReadBack(id, string) ==
    \E j \in 1..Len(po_read.catalog.messages) :
        /\ po_read.catalog.messages[j].id = id
        /\ po_read.catalog.messages[j].string = string

\* C2: a catalog whose messages have no comments, flags or locations, written
\* by write_po and parsed by read_po, comes back with the same (id, string)
\* pair for every message.
C2_PoRoundTrip ==
    (/\ po_pc = "read"
     /\ po_written.kind = "ok"
     /\ Len(po_catalog.messages) > 0
     /\ PlainCatalog(po_catalog)) =>
        /\ po_read.kind = "ok"
        /\ \A i \in 1..Len(po_catalog.messages) :
              PoReadBack(po_catalog.messages[i].id, po_catalog.messages[i].string)

\* the file read was opened from elsewhere (not written by write_po), and one
\* of its blocks has a structurally invalid line
ReadWithInvalidLine ==
    /\ po_pc = "read"
    /\ po_written = NoOutcome
    /\ \E i \in 1..Len(po_blocks) : po_blocks[i].invalid # 0

\* C7: with abort_invalid false, read_po does not fail on an input with
\* structurally invalid lines, and the catalog it returns holds every message
\* of the input's valid blocks.
C7_InvalidLinesSkipped ==
    (ReadWithInvalidLine /\ ~po_abort) =>
        /\ po_read.kind = "ok"
        /\ \A i \in 1..Len(po_blocks) : \A k \in 1..Len(po_blocks[i].messages) :
              PoReadBack(PyStr(po_blocks[i].messages[k][1]), PyStr(po_blocks[i].messages[k][2]))

\* the first block that has an invalid line
FirstInvalidBlock(blocks) ==
    CHOOSE i \in 1..Len(blocks) :
        blocks[i].invalid # 0 /\ \A j \in 1..(i - 1) : blocks[j].invalid = 0

RECURSIVE LinesBefore(_, _)
\* the number of lines of the blocks before the i-th
LinesBefore(blocks, i) ==
    IF i <= 1 THEN 0 ELSE blocks[i - 1].lines + LinesBefore(blocks, i - 1)

\* the number in the file (from 1) of its first invalid line, and its content
FirstInvalidLineno(blocks) ==
    LinesBefore(blocks, FirstInvalidBlock(blocks)) + blocks[FirstInvalidBlock(blocks)].invalid

FirstInvalidLine(blocks) ==
    SplitLines(blocks[FirstInvalidBlock(blocks)].text)[blocks[FirstInvalidBlock(blocks)].invalid]

\* C8: with abort_invalid true, read_po fails at the first structurally invalid
\* line with a PoFileError whose line is that line's content and whose lineno
\* is its line number.
C8_AbortsAtFirstInvalidLine ==
    (ReadWithInvalidLine /\ po_abort) =>
        /\ po_read.kind = "PoFileError"
        /\ po_read.lineno = FirstInvalidLineno(po_blocks)
        /\ po_read.line = FirstInvalidLine(po_blocks)

\* C3: denormalize(normalize(s, width=width)) == s, for every string and every
\* width, wrapping or not.
C3_DenormalizeInvertsNormalize ==
    n_pc = "denormalized" => n_result = n_string

-----------------------------------------------------------------------------
(* Claims about the number pattern engine *)

\* the attributes of a NumberPattern the determinism claim compares
SamePattern(p, q) ==
    /\ p.prefix = q.prefix
    /\ p.suffix = q.suffix
    /\ p.grouping = q.grouping
    /\ p.int_prec = q.int_prec
    /\ p.frac_prec = q.frac_prec
    /\ p.exp_prec = q.exp_prec
    /\ p.exp_plus = q.exp_plus
    /\ p.scale = q.scale

FitsDefaultPattern(v) == v.special = "" /\ v.exp >= -3

\* C10: for a value with no more fraction digits than the locale's default
\* pattern allows, format_decimal(v, locale) returns a string, and parse_decimal
\* of that string in the same locale is v, trailing zeros aside.
C10_DecimalRoundTrip ==
    /\ (/\ num_pc = "formatted"
        /\ num_kw = FormatDefaults
        /\ FitsDefaultPattern(num_value)) => num_formatted.kind = "ok"
    /\ (/\ num_pc = "parsed"
        /\ num_formatted.kind = "ok"
        /\ num_kw = FormatDefaults
        /\ FitsDefaultPattern(num_value)) =>
            /\ num_parsed.kind = "ok"
            /\ DecNormalize(num_parsed.value) = DecNormalize(num_value)

\* what the last call, a parse_decimal, returns for the same string and locale
\* without strict
LenientParse == parse_decimal(num_call.string, LocaleOf(num_call.locale), FALSE, "latn")

\* the last call is a strict parse_decimal of a string that reads as a number
StrictParseOfNumber ==
    /\ num_pc = "parsed"
    /\ num_call.op = "parse_decimal"
    /\ num_call.strict
    /\ LenientParse.kind = "ok"

\* the rendering of v with the default decimal pattern of the locale
Canonical(v, name) ==
    apply(LocaleOf(name).decimal_format, v, LocaleOf(name), ApplyDefaults)

\* the string of the last call is the rendering of the number it reads as
InputIsCanonical ==
    Canonical(LenientParse.value, num_call.locale) = [kind |-> "ok", value |-> num_call.string]

\* C11: in strict mode parse_decimal accepts a string exactly when rendering
\* the parsed value in the same locale gives the string back; a string such as
\* '1,234.5' in en_US or '1.099,98' in de is accepted and its value returned.
C11_StrictAcceptsCanonical ==
    StrictParseOfNumber =>
        IF InputIsCanonical THEN num_parsed = LenientParse
        ELSE num_parsed.kind = "NumberFormatError"

\* the last call is parse_decimal(string, locale='de', strict=True)
StrictParseInDe(string) ==
    /\ num_pc = "parsed"
    /\ num_call.op = "parse_decimal"
    /\ num_call.strict
    /\ num_call.locale = "de"
    /\ num_call.string = string

\* C12: the NumberFormatError of a strict rejection carries the candidate
\* corrections: '3.000' and '30,00' for '30.00' in de, and only '0' for '0.00'
\* in de, where the two candidates coincide.
C12_RejectionCarriesSuggestions ==
    /\ StrictParseInDe(<<51, 48, 46, 48, 48>>) =>
          /\ num_parsed.kind = "NumberFormatError"
          /\ num_parsed.suggestions =
                Just(<<<<51, 46, 48, 48, 48>>, <<51, 48, 44, 48, 48>>>>)
    /\ StrictParseInDe(<<48, 46, 48, 48>>) =>
          /\ num_parsed.kind = "NumberFormatError"
          /\ num_parsed.suggestions = Just(<<<<48>>>>)

(* Claims about the rendering of a number *)

\* the fraction precision the documentation gives a call of apply: the
\* currency's when a currency is given and currency_digits is on, else
\* force_frac when given, else the pattern's
EffectivePrecision(self, kw) ==
    IF ~kw.currency.none /\ kw.currency_digits
    THEN Just(<<get_currency_precision(kw.currency.v), get_currency_precision(kw.currency.v)>>)
    ELSE IF ~kw.force_frac.none THEN kw.force_frac
    ELSE self.frac_prec

\* the last call was an apply of a finite value with Latin digits, under a
\* known fraction precision
RenderedCall ==
    /\ num_call.op = "apply"
    /\ num_call.value.special = ""
    /\ num_call.kw.numbering_system = "latn"
    /\ ~EffectivePrecision(num_call.self, num_call.kw).none

\* n / d rounded to an integer, a tie going to the even neighbour
HalfEven(n, d) ==
    IF 2 * (n % d) < d THEN n \div d
    ELSE IF 2 * (n % d) > d THEN (n \div d) + 1
    ELSE IF (n \div d) % 2 = 0 THEN n \div d
    ELSE (n \div d) + 1

\* |value| * 10^scale in units of 10^-places, rounded half-even
RoundedUnits(value, scale, places) ==
    IF value.exp + scale + places >= 0
    THEN value.coeff * Pow10(value.exp + scale + places)
    ELSE HalfEven(value.coeff, Pow10(0 - (value.exp + scale + places)))

RECURSIVE GroupsOf(_, _, _)
\* digits cut from the right into groups of g digits with sym between them
GroupsOf(digits, g, sym) ==
    IF g <= 0 \/ Len(digits) <= g THEN digits
    ELSE GroupsOf(SubSeq(digits, 1, Len(digits) - g), g, sym) \o sym
         \o SubSeq(digits, Len(digits) - g + 1, Len(digits))

\* digits with the rightmost group of grouping[1] digits and every group to
\* its left of grouping[2] digits
Grouped(digits, grouping, sym) ==
    IF grouping[1] <= 0 \/ Len(digits) <= grouping[1] THEN digits
    ELSE GroupsOf(SubSeq(digits, 1, Len(digits) - grouping[1]), grouping[2], sym) \o sym
         \o SubSeq(digits, Len(digits) - grouping[1] + 1, Len(digits))

\* the fraction of a number of units of 10^-places: the decimal symbol and
\* the digits without trailing zeros, or nothing
FractionText(units, places, decimal) ==
    IF RStrip(Digits(units % Pow10(places), places), 48) = <<>> THEN <<>>
    ELSE decimal \o RStrip(Digits(units % Pow10(places), places), 48)

\* the number of units of 10^-places between the affixes of self, its integer
\* digits grouped when the call asks for it
RenderingOfUnits(self, units, places, negative, symbols, group_separator) ==
    self.prefix[IF negative THEN 2 ELSE 1]
    \o (IF group_separator
        THEN Grouped(IntToStr(units \div Pow10(places)), self.grouping, symbols.group)
        ELSE IntToStr(units \div Pow10(places)))
    \o FractionText(units, places, symbols.decimal)
    \o self.suffix[IF negative THEN 2 ELSE 1]

\* the rendering of value rounded to places fraction digits
GroupedRendering(self, value, places, symbols, group_separator) ==
    RenderingOfUnits(self, RoundedUnits(value, self.scale, places), places,
                     DecIsNegative(value), symbols, group_separator)

\* C13: a quantizing apply renders the integer digits with the rightmost
\* group of grouping[1] digits and every group to its left of grouping[2]
\* digits, and with no group symbol at all when group_separator is false
C13_GroupsOfBothSizes ==
    (RenderedCall /\ num_call.kw.decimal_quantization)
    => num_out = [kind |-> "ok",
                  value |-> GroupedRendering(
                      num_call.self, num_call.value,
                      EffectivePrecision(num_call.self, num_call.kw).v[2],
                      LocaleOf(num_call.locale).number_symbols["latn"],
                      num_call.kw.group_separator)]

\* the groups of the pattern of the last call have one size, or the call
\* asks for no grouping
OneGroupSize ==
    \/ ~num_call.kw.group_separator
    \/ num_call.self.grouping[1] = num_call.self.grouping[2]

CurrencyCallEn(number, currency, kw) ==
    /\ num_call.op = "format_currency"
    /\ num_call.locale = "en_US"
    /\ num_call.number = number
    /\ num_call.currency = currency
    /\ num_call.kw = kw

\* C15: the renderer works with the currency's digits when a currency is
\* given and currency_digits is on, else with force_frac when given, else
\* with the pattern's own precision; 1099.98 in JPY is rendered as the yen
\* sign and '1,100', and with currency_digits off as the yen sign and
\* '1,099.98'
C15_CurrencyDigitsFirst ==
    /\ (RenderedCall /\ num_call.kw.decimal_quantization /\ OneGroupSize)
       => /\ num_out.kind = "ok"
          /\ num_out.value
             = GroupedRendering(num_call.self, num_call.value,
                                EffectivePrecision(num_call.self, num_call.kw).v[2],
                                LocaleOf(num_call.locale).number_symbols["latn"],
                                num_call.kw.group_separator)
    /\ CurrencyCallEn(Dec(0, 109998, -2), JPY, CurrencyDefaults)
       => num_out = [kind |-> "ok", value |-> <<165, 49, 44, 49, 48, 48>>]
    /\ CurrencyCallEn(Dec(0, 109998, -2), JPY,
                      [CurrencyDefaults EXCEPT !.currency_digits = FALSE])
       => num_out = [kind |-> "ok", value |-> <<165, 49, 44, 48, 57, 57, 46, 57, 56>>]

\* the last call was an apply without quantization of a value with more
\* fraction digits than the effective maximum
UnquantizedLongCall ==
    /\ RenderedCall /\ OneGroupSize
    /\ ~num_call.kw.decimal_quantization
    /\ 0 - num_call.value.exp > EffectivePrecision(num_call.self, num_call.kw).v[2]

\* C16: with decimal_quantization off, apply renders every fraction digit of
\* the value, neither rounded nor cut, also when the value has more of them
\* than the pattern allows; 1099.9876 in USD is rendered as '$1,099.9876'
C16_EveryFractionDigit ==
    /\ UnquantizedLongCall
       => num_out = [kind |-> "ok",
                     value |-> RenderingOfUnits(
                         num_call.self,
                         num_call.value.coeff * Pow10(num_call.self.scale),
                         0 - num_call.value.exp,
                         DecIsNegative(num_call.value),
                         LocaleOf(num_call.locale).number_symbols["latn"],
                         num_call.kw.group_separator)]
    /\ CurrencyCallEn(Dec(0, 10999876, -4), USD,
                      [CurrencyDefaults EXCEPT !.decimal_quantization = FALSE])
       => num_out = [kind |-> "ok", value |-> <<36, 49, 44, 48, 57, 57, 46, 57, 56, 55, 54>>]

(* Claims about the compact formatters *)

\* the last call was a compact formatter with a format type the locale has
CompactCall ==
    /\ num_call.op \in {"format_compact_decimal", "format_compact_currency"}
    /\ num_call.kw.format_type = "short"

\* the compact formats the last call reads
CallFormats ==
    IF num_call.op = "format_compact_decimal"
    THEN LocaleOf(num_call.locale).compact_decimal_formats[num_call.kw.format_type]
    ELSE LocaleOf(num_call.locale).compact_currency_formats[num_call.kw.format_type]

\* the threshold table of the plural category of the number of the last call
CallTable == CompactPatterns(CallFormats, plural_form(DecAbs(num_call.number)))

\* t is a threshold of the table of the last call that the number reaches,
\* and the number reaches no larger one
LargestReached(t) ==
    /\ t \in DOMAIN CallTable
    /\ DecGeInt(DecAbs(num_call.number), DigitsValue(t))
    /\ \A u \in DOMAIN CallTable :
          DecGeInt(DecAbs(num_call.number), DigitsValue(u)) => DigitsValue(u) <= DigitsValue(t)

\* the standard rendering of the number of the last call: the locale's
\* decimal format, or its standard currency format with the currency
StandardRendering ==
    IF num_call.op = "format_compact_decimal"
    THEN Canonical(num_call.number, num_call.locale)
    ELSE CurrencyWith(parse_pattern(LocaleOf(num_call.locale).currency_formats.standard),
                      num_call.number, num_call.currency, LocaleOf(num_call.locale),
                      CurrencyDefaults)

\* C17: the compact pattern selected is the pattern of the largest threshold
\* of the plural category's table that is not above |value|, the thresholds
\* compared as numbers; when the value reaches none, no pattern is selected
\* and the formatter returns the standard rendering
C17_LargestThresholdOrStandard ==
    CompactCall
    => IF \E t \in DOMAIN CallTable : LargestReached(t)
       THEN \A t \in DOMAIN CallTable :
               LargestReached(t)
               => _get_compact_format(num_call.number, CallFormats).pattern
                  = Just(parse_pattern(CallTable[t]).pattern)
       ELSE /\ _get_compact_format(num_call.number, CallFormats).pattern = Nothing
            /\ num_out = StandardRendering

\* the affixes of a number in thousands: nothing before it but the minus
\* sign, 'K' after it
InThousands == [prefix |-> <<<<>>, <<45>>>>, suffix |-> <<<<75>>, <<75>>>>, grouping |-> <<3, 3>>]

\* the number of the last call in thousands, in units of 10^-fraction_digits
\* rounded half-even
ThousandsUnits ==
    RoundedUnits([num_call.number EXCEPT !.exp = @ - 3], 0, num_call.kw.fraction_digits)

\* the last call was format_compact_decimal under the en_US short table with
\* 10000 <= number < 100000, and the last of the fraction digits asked for
\* is not a zero
TensOfThousandsCall ==
    /\ CompactCall
    /\ num_call.op = "format_compact_decimal"
    /\ num_call.locale = "en_US"
    /\ num_call.number.sign = 0
    /\ DecGeInt(num_call.number, 10000)
    /\ ~DecGeInt(num_call.number, 100000)
    /\ num_call.kw.fraction_digits = 0 \/ ThousandsUnits % 10 # 0

\* C18: format_compact_decimal renders the value divided by the compact unit
\* and rounded to fraction_digits fraction digits, without spaces around it:
\* a value from 10000 up to 100000 under the en_US short table comes out as
\* value / 1000 and 'K'
C18_ScaledToCompactUnit ==
    TensOfThousandsCall
    => num_out = [kind |-> "ok",
                  value |-> RenderingOfUnits(InThousands, ThousandsUnits,
                                             num_call.kw.fraction_digits, FALSE,
                                             LocaleEnUS.number_symbols["latn"], FALSE)]

(* Claims about currencies and units *)

\* the last call was format_currency with a currency code the currency data
\* does not hold, under a format type the locale has
UnknownCurrencyCall ==
    /\ num_call.op = "format_currency"
    /\ num_call.currency \notin {USD, JPY, EUR}
    /\ num_call.kw.format_type \in DOMAIN LocaleOf(num_call.locale).currency_formats

\* the last call was format_unit with a unit code the locale does not hold
UnknownUnitCall ==
    /\ num_call.op = "format_unit"
    /\ UnitCategories(num_call.measurement_unit, LocaleOf(num_call.locale)) = {}

\* the last call was format_currency with a format type that is neither
\* 'name' nor a key of the locale's currency formats
UnknownFormatTypeCall ==
    /\ num_call.op = "format_currency"
    /\ num_call.kw.format_type # "name"
    /\ num_call.kw.format_type \notin DOMAIN LocaleOf(num_call.locale).currency_formats

\* C19: formatting with an unknown currency code fails with
\* UnknownCurrencyError, with an unknown unit code with UnknownUnitError and
\* with an unknown currency format type with UnknownCurrencyFormatError, each
\* naming the identifier that was not found
C19_UnknownIdentifierErrors ==
    /\ UnknownCurrencyCall
       => num_out = [kind |-> "UnknownCurrencyError", names |-> num_call.currency]
    /\ UnknownUnitCall
       => num_out = [kind |-> "UnknownUnitError", names |-> num_call.measurement_unit]
    /\ UnknownFormatTypeCall
       => num_out = [kind |-> "UnknownCurrencyFormatError", names |-> num_call.kw.format_type]

\* the last call was format_currency with a currency of the currency data,
\* under a format type whose pattern the locale has
KnownCurrencyCall ==
    /\ num_call.op = "format_currency"
    /\ num_call.currency \in {USD, JPY, EUR}
    /\ num_call.kw.format_type \in DOMAIN LocaleOf(num_call.locale).currency_formats

\* the pattern the last call of format_currency is to work with: the format
\* passed, else the locale's pattern of the format type
CurrencyPatternAsked ==
    IF ~num_call.kw.format.none THEN num_call.kw.format.v
    ELSE LocaleOf(num_call.locale).currency_formats[num_call.kw.format_type]

\* text with the currency sign replaced: three of them by the currency's
\* name, two by its code, one by its symbol
CurrencySubstituted(text, currency, number, locale) ==
    Replace(Replace(Replace(text, <<164, 164, 164>>,
                            get_currency_name(currency, number, locale)),
                    <<164, 164>>, currency),
            <<164>>, get_currency_symbol(currency, locale))

\* C20: format_currency returns the rendering of the number under the
\* pattern asked for, the explicitly passed format when there is one, with
\* the currency sign of the affixes replaced by the symbol, the code or the
\* name of the currency; 1099.98 EUR under the code form, a space and
\* '#,##0.00' is 'EUR 1,099.98'
C20_CurrencySignSubstituted ==
    /\ KnownCurrencyCall
       => /\ num_out.kind = "ok"
          /\ num_out.value
             = CurrencySubstituted(
                   CurrencyWith(parse_pattern(CurrencyPatternAsked), num_call.number,
                                num_call.currency, LocaleOf(num_call.locale),
                                num_call.kw).value,
                   num_call.currency, num_call.number, LocaleOf(num_call.locale))
    /\ CurrencyCallEn(Dec(0, 109998, -2), EUR,
                      [CurrencyDefaults EXCEPT !.format = Just(<<164, 164, 32, 35, 44, 35, 35, 48, 46, 48, 48>>)])
       => num_out = [kind |-> "ok", value |-> <<69, 85, 82, 32, 49, 44, 48, 57, 57, 46, 57, 56>>]

(* Claims about the layout of the MO file written *)

\* the messages write_mo includes, in the order it writes them
Included ==
    SelectSeq(SortMessages(CatalogIter(catalog)), LAMBDA m : ~MoSkipped(m, use_fuzzy))

\* the 32-bit word of the bytes written at offset off, as a number
WrittenWord(off) ==
    UnpackI(native, Slice(mo_written.buf, off, off + 4)).hi * 65536
    + UnpackI(native, Slice(mo_written.buf, off, off + 4)).lo

\* the index entry at offset off of the bytes written is (length, offset) of
\* the bytes blob, which lie within the file
EntryPointsAt(off, blob) ==
    /\ WrittenWord(off + 4) + WrittenWord(off) <= Len(mo_written.buf)
    /\ Slice(mo_written.buf, WrittenWord(off + 4), WrittenWord(off + 4) + WrittenWord(off))
       = blob

\* write_mo has written a file
MoWritten == mo_pc \in {"written", "read"} /\ mo_src = "write_mo" /\ mo_written.kind = "ok"

\* C21: in the bytes written by write_mo for N included messages the header
\* is the first 28 bytes, the table of the keys starts at offset 28 and the
\* table of the values at 28 + 8 * N, and every index entry is the pair
\* (length, offset) of the bytes of that message's key (or value), which lie
\* within the file
C21_HeaderTablesBlobs ==
    MoWritten
    => /\ Len(mo_written.buf) >= 28 + 16 * Len(Included)
       /\ WrittenWord(8) = Len(Included)
       /\ WrittenWord(12) = 28
       /\ WrittenWord(16) = 28 + 8 * Len(Included)
       /\ \A i \in 1..Len(Included) :
             /\ EntryPointsAt(28 + 8 * (i - 1), MoKey(Included[i]).b)
             /\ EntryPointsAt(28 + 8 * Len(Included) + 8 * (i - 1), MoValue(Included[i]).b)

-----------------------------------------------------------------------------
(* Claims about the messages the PO parser produces *)

\* the (id, string) pairs of the blocks that contain a msgid directive, in the
\* order of the input
BlockMessages(blocks) ==
    Concat([i \in 1..Len(blocks) |-> blocks[i].messages])

\* a file opened from elsewhere was parsed, and no two of its blocks carry the
\* same msgid
ParsedDistinctBlocks ==
    /\ po_pc = "read"
    /\ po_written = NoOutcome
    /\ Len(BlockMessages(po_blocks)) > 0
    /\ \A i, j \in 1..Len(BlockMessages(po_blocks)) :
          BlockMessages(po_blocks)[i][1] = BlockMessages(po_blocks)[j][1] => i = j

\* C22: after PoFileParser.parse finishes on an input, every blank-line
\* delimited block that contains a msgid directive has produced exactly one
\* message, and the messages are in the order of the input.
C22_OneMessagePerBlockInOrder ==
    ParsedDistinctBlocks =>
        /\ po_read.kind = "ok"
        /\ Len(po_read.catalog.messages) = Len(BlockMessages(po_blocks))
        /\ \A k \in 1..Len(BlockMessages(po_blocks)) :
              /\ po_read.catalog.messages[k].id = PyStr(BlockMessages(po_blocks)[k][1])
              /\ po_read.catalog.messages[k].string = PyStr(BlockMessages(po_blocks)[k][2])

-----------------------------------------------------------------------------
(* Claims about the entries write_po writes *)

\* the lines of the file written, without their line feeds
WrittenLines ==
    [i \in 1..Len(FileLines(po_written.out)) |->
        SelectSeq(FileLines(po_written.out)[i], LAMBDA c : c # 10)]

RECURSIVE EntriesOf(_, _)
\* the runs of non-empty lines between the empty ones, cur being the run so far
EntriesOf(lines, cur) ==
    IF lines = <<>> THEN (IF cur = <<>> THEN <<>> ELSE <<cur>>)
    ELSE IF Head(lines) = <<>>
    THEN (IF cur = <<>> THEN <<>> ELSE <<cur>>) \o EntriesOf(Tail(lines), <<>>)
    ELSE EntriesOf(Tail(lines), Append(cur, Head(lines)))

\* where a line belongs in an entry: 1 location comment '#:', 2 flag comment
\* '#,', 3 previous-id comment ('#|' or '# Previous '), 4 auto comment '#.',
\* 5 user comment '#', 6 msgid, 7 msgid_plural, 8 msgstr or msgstr[n],
\* 0 a quoted continuation line, 9 anything else
LineRank(l) ==
    IF StartsWith(l, <<34>>) THEN 0
    ELSE IF StartsWith(l, <<35, 58>>) THEN 1
    ELSE IF StartsWith(l, <<35, 44>>) THEN 2
    ELSE IF StartsWith(l, <<35, 124>>) \/ StartsWith(l, <<35, 32>> \o L_previous) THEN 3
    ELSE IF StartsWith(l, <<35, 46>>) THEN 4
    ELSE IF StartsWith(l, <<35>>) THEN 5
    ELSE IF StartsWith(l, L_msgid) THEN 6
    ELSE IF StartsWith(l, L_msgid_plural) THEN 7
    ELSE IF StartsWith(l, L_msgstr) \/ StartsWith(l, <<109, 115, 103, 115, 116, 114, 91>>) THEN 8
    ELSE 9

\* how many lines of the entry have the rank
RankCount(entry, rank) == Len(SelectSeq(entry, LAMBDA l : LineRank(l) = rank))

\* the lines of the entry of a message are the ones write_entry is to write,
\* each directive on a line of its own, in order
EntryInOrder(entry, message, o) ==
    /\ \A i \in 1..Len(entry) : LineRank(entry[i]) # 9
    /\ \A i, j \in 1..Len(entry) :
          (i < j /\ LineRank(entry[i]) # 0 /\ LineRank(entry[j]) # 0)
              => LineRank(entry[i]) <= LineRank(entry[j])
    /\ RankCount(entry, 1) = (IF o.no_location THEN 0 ELSE Len(message.locations))
    /\ RankCount(entry, 2) = (IF message.flags = {} THEN 0 ELSE 1)
    /\ (RankCount(entry, 3) > 0 => o.include_previous)
    /\ RankCount(entry, 4) = Len(message.auto_comments)
    /\ RankCount(entry, 6) = 1
    /\ RankCount(entry, 7) = (IF message.id.tuple THEN 1 ELSE 0)
    /\ IF message.id.tuple THEN RankCount(entry, 8) >= 1 ELSE RankCount(entry, 8) = 1

\* write_po was called without a header, without sorting, on a catalog that
\* has messages and no obsolete ones
EntriesWritten ==
    /\ po_pc \in {"written", "failed"}
    /\ po_opts.omit_header /\ ~po_opts.sort_output /\ ~po_opts.sort_by_file
    /\ Len(po_catalog.messages) > 0
    /\ po_catalog.obsolete = <<>>

\* C23: within every entry written by write_po the lines appear in the order
\* location comments (none when no_location), flag comment, previous-id
\* comment (only when include_previous), auto comments '#.', user comments
\* '#', msgid, then one msgstr or msgid_plural and msgstr[0], msgstr[1], ...;
\* each directive starts on a line of its own.
C23_EntryLinesInOrder ==
    EntriesWritten =>
        /\ po_written.kind = "ok"
        /\ Len(EntriesOf(WrittenLines, <<>>)) = Len(po_catalog.messages)
        /\ \A k \in 1..Len(po_catalog.messages) :
              EntryInOrder(EntriesOf(WrittenLines, <<>>)[k], po_catalog.messages[k], po_opts)

\* '#~ '
L_obsolete == <<35, 126, 32>>

\* write_po returned, for a catalog that has obsolete messages
ObsoleteWritten ==
    /\ po_pc = "written"
    /\ po_catalog.obsolete # <<>>

\* C24: write_po emits the obsolete entries after all the non-obsolete ones,
\* every line of them prefixed with '#~ '; with ignore_obsolete true no
\* obsolete entry is written.
C24_ObsoleteLastAndPrefixed ==
    ObsoleteWritten =>
        IF po_opts.ignore_obsolete
        THEN \A i \in 1..Len(WrittenLines) : ~StartsWith(WrittenLines[i], L_obsolete)
        ELSE /\ Len(SelectSeq(WrittenLines, LAMBDA l : StartsWith(l, L_obsolete \o L_msgid)))
                    = Len(po_catalog.obsolete)
             /\ \E n \in 0..Len(WrittenLines) :
                   /\ \A i \in 1..n : ~StartsWith(WrittenLines[i], L_obsolete)
                   /\ \A i \in (n + 1)..Len(WrittenLines) :
                         WrittenLines[i] = <<>> \/ StartsWith(WrittenLines[i], L_obsolete)

-----------------------------------------------------------------------------
(* Claims about the affixes and the scale of a compiled pattern *)

\* the last call was parse_pattern and it returned the last pattern compiled
JustCompiled == num_call.op = "parse_pattern" /\ num_out.kind = "ok"

\* the positive sub-pattern of the pattern string just compiled
PositiveOf(p) == IF Contains(p, 59) THEN SplitOn(p, 59)[1] ELSE p

\* C25: parse_pattern assigns the literal text before the numeric region to
\* the positive prefix and the literal text after it to the positive suffix
\* ('#,##0%' has prefix '' and suffix '%'); for a pattern without ';' the
\* negative prefix is '-' followed by the positive prefix and the negative
\* suffix is the positive suffix.
C25_AffixesAroundNumber ==
    JustCompiled =>
        /\ patterns[Len(patterns)].prefix[1] = NumberReMatch(PositiveOf(num_call.pattern)).prefix
        /\ patterns[Len(patterns)].suffix[1] = NumberReMatch(PositiveOf(num_call.pattern)).suffix
        /\ ~Contains(num_call.pattern, 59) =>
              /\ patterns[Len(patterns)].prefix[2] = <<45>> \o patterns[Len(patterns)].prefix[1]
              /\ patterns[Len(patterns)].suffix[2] = patterns[Len(patterns)].suffix[1]

\* the scale of a pattern whose affixes are the pairs prefix and suffix: 2
\* with a percent sign among them, 3 with a per-mille sign, else 0
ScaleOfAffixes(prefix, suffix) ==
    IF \E k \in 1..2 : Contains(prefix[k], 37) \/ Contains(suffix[k], 37) THEN 2
    ELSE IF \E k \in 1..2 : Contains(prefix[k], 8240) \/ Contains(suffix[k], 8240) THEN 3
    ELSE 0

\* the last call was parse_pattern('#,##0%').apply(0.34, 'en_US')
PercentCall ==
    /\ num_call.op = "apply"
    /\ num_call.self.pattern = <<35, 44, 35, 35, 48, 37>>
    /\ num_call.value = Dec(0, 34, -2)
    /\ num_call.locale = "en_US"
    /\ num_call.kw = ApplyDefaults

\* C26: a pattern whose prefix or suffix contains '%' has scale 2, one with
\* the per-mille sign has scale 3, any other 0, and the renderer multiplies
\* the value by 10^scale before rounding: 0.34 under the percent pattern
\* '#,##0%' of en_US is rendered as '34%'.
C26_ScaledBeforeRounding ==
    /\ JustCompiled =>
          patterns[Len(patterns)].scale
              = ScaleOfAffixes(patterns[Len(patterns)].prefix, patterns[Len(patterns)].suffix)
    /\ PercentCall => num_out = [kind |-> "ok", value |-> <<51, 52, 37>>]

-----------------------------------------------------------------------------
(* Claims about what apply leaves alone *)

\* the pattern parse_pattern compiles from the string self was compiled from
FreshlyCompiled(self) == parse_pattern(self.pattern).pattern

\* C27: apply never mutates the pattern: after the apply calls made so far
\* every pattern has the prefix, suffix, grouping, int_prec, frac_prec,
\* exp_prec, exp_plus and scale of a freshly compiled one, so another apply on
\* it gives the output the same call gives on a freshly compiled pattern.
C27_ApplyLeavesPattern ==
    num_call.op = "apply" =>
        \A i \in 1..Len(patterns) :
            /\ SamePattern(patterns[i], FreshlyCompiled(patterns[i]))
            /\ apply(patterns[i], num_call.value, LocaleOf(num_call.locale), num_call.kw)
                   = apply(FreshlyCompiled(patterns[i]), num_call.value,
                           LocaleOf(num_call.locale), num_call.kw)

\* '#,##0.###' was applied to 1234.5 with the defaults in en_US, gave
\* '1,234.5', and is still among the patterns
C27_AppliedPatternKept ==
    /\ num_call.op = "apply"
    /\ num_applies >= 1
    /\ num_call.self.pattern = <<35, 44, 35, 35, 48, 46, 35, 35, 35>>
    /\ num_call.value = Dec(0, 12345, -1)
    /\ num_call.locale = "en_US"
    /\ num_call.kw = ApplyDefaults
    /\ num_out = [kind |-> "ok", value |-> <<49, 44, 50, 51, 52, 46, 53>>]
    /\ \E i \in 1..Len(patterns) : patterns[i].pattern = num_call.self.pattern

-----------------------------------------------------------------------------
(* Claims about escape and unescape *)

\* C28: unescape(escape(s)) == s for every string s, with backslashes, double
\* quotes, tabs, carriage returns and line feeds in it or not.
C28_UnescapeInvertsEscape ==
    n_pc = "unescaped" => e_result = e_string

-----------------------------------------------------------------------------
(* Claims about the byte order of the MO file read *)

\* the bytes of the file read had it been laid out in the other byte order:
\* the same magic number, version, count and entries, cut at the same length
OtherOrderBuf ==
    Slice(MoFile(IF mo_file.order = "<" THEN ">" ELSE "<", mo_file.magic, mo_file.version,
                 mo_file.count, mo_file.entries),
          0, Len(mo_buf))

\* C29: read_mo returns equal catalogs for a little-endian MO buffer and the
\* big-endian buffer that encodes the same content: every header field and
\* every index entry is read in the byte order the magic number indicates.
C29_SameCatalogEitherOrder ==
    (mo_pc = "read" /\ mo_src = "file") => mo_read = read_mo(OtherOrderBuf)

\* a whole big-endian file of one message was read into a catalog of one
C29_BigEndianFileRead ==
    /\ mo_pc = "read" /\ mo_src = "file"
    /\ mo_file.order = ">"
    /\ Len(mo_file.entries) = 1
    /\ Len(mo_buf) = Len(OtherOrderBuf)
    /\ BufMagic(mo_buf) = BE_MAGIC
    /\ mo_read.kind = "ok"
    /\ Len(mo_read.catalog.messages) = 1

-----------------------------------------------------------------------------
(* Claims about tokenize *)

\* C30: tokenize terminates on every finite source: every iteration of its
\* loop that does not raise SyntaxError consumes at least one character, so
\* the iterations made never outnumber the characters consumed, and these
\* never exceed the length of the source.
C30_EveryIterationConsumes ==
    js_pc \in {"loop", "done", "SyntaxError"} =>
        /\ js_iter <= js_pos
        /\ js_pos <= Len(js_source)
        /\ js_pc = "done" => js_pos = Len(js_source)

\* 'a.b = 1.5e3' was tokenized to its end with dotted names off, in seven
\* tokens
C30_TokenizedToTheEnd ==
    /\ js_pc = "done"
    /\ js_source = <<97, 46, 98, 32, 61, 32, 49, 46, 53, 101, 51, 10>>
    /\ Len(js_rules) = 10
    /\ Len(js_tokens) = 7
    /\ js_iter >= 7

=============================================================================
